---------------------------- MODULE Spec2Model ----------------------------
(***************************************************************************)
(* A model of the Anamnesa RAG retrieval engine (src/rag-system).          *)
(*                                                                         *)
(*   SpecCache  - the snapshot freshness check of EnhancedRAGRetriever     *)
(*                (api_retriever.py, _is_cache_valid).                     *)
(*   SpecQuery  - EnhancedRAGRetriever.rag_query with its SIGALRM deadline *)
(*                and its two fallback handlers (api_retriever.py).        *)
(*   SpecSearch - BM25Search, FaissVectorDB and HybridSearchEngine: adding *)
(*                documents and searching (bm25_search.py,                 *)
(*                faiss_vector_db.py, hybrid_search_engine.py).            *)
(*                                                                         *)
(* Every specification runs over the same variables; the variables of the  *)
(* parts it does not exercise stay at their initial values.                *)
(***************************************************************************)
EXTENDS Integers, Sequences, FiniteSets, TLC

(***************************************************************************)
(* Bounds of the model.                                                    *)
(***************************************************************************)
\* file modification times and manifest timestamps range over 0..MaxTime
MaxTime == 2
\* rag_query calls made on one retriever
MaxQueries == 3
\* documents held by either index
MaxDocs == 3
\* the top_k argument of a search ranges over 0..MaxK
MaxK == 3
\* saves, loads, constructions and damaged files in one run of the store
MaxStoreCalls == 4
\* adaptive searches started in one run of the threads
MaxAdaptiveCalls == 3
\* documents in one call of add_documents with precomputed embeddings
MaxBatch == 3

(***************************************************************************)
(* Program constants.                                                      *)
(***************************************************************************)
\* api_retriever.py:144, "> 100  # Allow some tolerance"
CountTolerance == 100
\* bm25_search.py:35, min_word_length
min_word_length == 2
\* hybrid_search_engine.py:32-33 and api_retriever.py:84-85: the weights 0.6
\* and 0.4, in tenths
vector_weight == 6
keyword_weight == 4
\* hybrid_search_engine.py:36-37
vector_top_k == 20
keyword_top_k == 20
\* hybrid_search_engine.py:309, the k of _reciprocal_rank_fusion
RrfK == 60

(***************************************************************************)
(* Variables.                                                              *)
(***************************************************************************)
\* --- snapshot cache (api_retriever.py, _is_cache_valid) ---
VARIABLES
    snapshot_exists,   \* the four files under <data>/indexes: name -> exists
    cache_info,        \* content of cache_info.json
    data_files,        \* the *.json source files of the data folder
    cache_pc,          \* "start" before the check ran, "checked" after
    cache_valid        \* what _is_cache_valid returned

cacheVars == <<snapshot_exists, cache_info, data_files, cache_pc, cache_valid>>

\* --- EnhancedRAGRetriever and one rag_query call at a time ---
VARIABLES
    use_hybrid,        \* self.use_hybrid
    has_original,      \* hasattr(self, 'original_retriever')
    alarm,             \* the SIGALRM timer: "off" or "armed"
    pc,                \* position of the main thread in rag_query
    handler,           \* "none" on the hybrid path, else the path that runs
                       \* the fallback: "timeout", "exception", "direct"
    cur_query,         \* the query argument
    collected,         \* futures taken from as_completed so far
    retrieved_docs,    \* local retrieved_docs
    response,          \* local response
    outcome,           \* what the call gave its caller
    engine_called,     \* the engine search_documents dispatched to
    deadline_at,       \* where the deadline fired in this call ("none")
    hybrid_exc,        \* how the hybrid path ended: "none", "timeout",
                       \* "exception"
    search_ok,         \* the hybrid search returned normally
    gen_ok,            \* the generator answered on the hybrid path
    reinit_calls,      \* calls of _init_original_search in this call
    fallback_calls,    \* calls of _rag_query_fallback in this call
    queries_done       \* completed rag_query calls

queryVars == <<use_hybrid, has_original, alarm, pc, handler, cur_query,
               collected, retrieved_docs, response, outcome, engine_called,
               deadline_at, hybrid_exc, search_ok, gen_ok, reinit_calls,
               fallback_calls, queries_done>>

\* --- HybridSearchEngine with its two indexes, one search at a time ---
VARIABLES
    vdb_documents,       \* FaissVectorDB.documents, aligned with the index
    bm25_documents,      \* BM25Search.documents, aligned with tokenized_docs
    use_parallel_search, \* HybridSearchEngine.use_parallel_search
    rerank_method,       \* HybridSearchEngine.rerank_method
    api,                 \* the method called: "none", "hybrid", "bm25"
    search_pc,           \* position of the calling thread in the search
    s_query,             \* the query argument, as its words
    s_top_k,             \* the top_k argument
    leg_state,           \* the two futures: "idle", "running", "finished"
    leg_result,          \* what each finished future holds
    completed,           \* the futures in the order they finished
    n_collected,         \* futures the as_completed loop has handled
    vector_results,      \* local vector_results
    keyword_results,     \* local keyword_results
    final_results        \* what search returned

searchVars == <<vdb_documents, bm25_documents, use_parallel_search,
                rerank_method, api, search_pc, s_query, s_top_k, leg_state,
                leg_result, completed, n_collected, vector_results,
                keyword_results, final_results>>

\* --- one FaissVectorDB, one BM25Search and their three files on disk ---
VARIABLES
    f_index,           \* FaissVectorDB.index: None, or its vectors in order
    f_documents,       \* FaissVectorDB.documents
    f_doc_ids,         \* FaissVectorDB.doc_ids
    b_bm25,            \* BM25Search.bm25: None, or the corpus it was fitted on
    b_documents,       \* BM25Search.documents
    b_tokenized_docs,  \* BM25Search.tokenized_docs
    b_doc_ids,         \* BM25Search.doc_ids
    disk,              \* faiss_index.bin, faiss_metadata.pkl, bm25_index.pkl
    st_next,           \* how many documents of StoreDocs were handed to add
    st_op,             \* the last call on the pair and how it ended
    st_calls,          \* saves, loads, constructions and damages so far
    st_saved           \* the two objects as they were at the last save

storeVars == <<f_index, f_documents, f_doc_ids, b_bm25, b_documents,
               b_tokenized_docs, b_doc_ids, disk, st_next, st_op, st_calls,
               st_saved>>

\* --- _build_hybrid_indexes saving the snapshot ---
VARIABLES
    bd_pc,             \* position in _init_hybrid_search / _build_hybrid_indexes
    bd_files,          \* each file of indexes/: absent, old, partial or new
    bd_cur,            \* the file being written, 1..4 in the order of the code
    bd_open,           \* the file being written was opened for writing
    bd_failed,         \* the files whose write failed in this build
    bd_has_documents,  \* _load_all_documents returned some documents
    bd_use_hybrid,     \* EnhancedRAGRetriever.use_hybrid
    bd_engine          \* the in-memory indexes of hybrid_engine

buildVars == <<bd_pc, bd_files, bd_cur, bd_open, bd_failed, bd_has_documents,
               bd_use_hybrid, bd_engine>>

\* --- _load_all_documents reading the data folder ---
VARIABLES
    ld_files,          \* what each *.json file of the data folder holds
    ld_next,           \* position of the loop over json_files
    ld_documents,      \* the list documents
    ld_errors          \* the files the except of line 277 logged

loaderVars == <<ld_files, ld_next, ld_documents, ld_errors>>

\* --- adaptive searches of several threads on one HybridSearchEngine ---
VARIABLES
    a_vector_weight,   \* HybridSearchEngine.vector_weight, times 10
    a_keyword_weight,  \* HybridSearchEngine.keyword_weight, times 10
    a_pc,              \* each thread's position in _adaptive_rerank
    a_query,           \* each thread's query
    a_adaptive,        \* adaptive_vector_weight, adaptive_keyword_weight
    a_original,        \* each thread's original_weights
    a_used,            \* the weights _weighted_sum_rerank read for the thread
    a_entry,           \* the engine's weights when the thread's call began
    a_overlap,         \* another thread was in its call during this call
    a_calls            \* adaptive searches started so far

adaptiveVars == <<a_vector_weight, a_keyword_weight, a_pc, a_query,
                  a_adaptive, a_original, a_used, a_entry, a_overlap,
                  a_calls>>

\* --- FaissVectorDB.add_documents on a batch with precomputed embeddings ---
VARIABLES
    e_docs,            \* the documents handed to add_documents
    e_i,               \* documents of the batch already looked at
    e_embeddings,      \* the local list embeddings
    e_valid_docs,      \* the local list valid_docs
    e_index,           \* the vectors in FaissVectorDB.index
    e_documents,       \* FaissVectorDB.documents
    e_pc,              \* position of the build
    e_use_hybrid       \* EnhancedRAGRetriever.use_hybrid

embedVars == <<e_docs, e_i, e_embeddings, e_valid_docs, e_index, e_documents,
               e_pc, e_use_hybrid>>

\* --- NCBICrawler.crawl_and_process: worker threads and the main thread ---
VARIABLES
    c_content,         \* the hash of the PDF each URL serves
    c_pc,              \* each task's position in process_single_pdf
    c_file_hash,       \* each task's local file_hash
    c_existing,        \* each task's local existing
    c_paper,           \* the ProcessedPaper each task returned
    c_completed,       \* the futures as_completed has still to yield
    c_rows,            \* table processed_papers, by url
    c_processed_urls   \* NCBICrawler.processed_urls

crawlVars == <<c_content, c_pc, c_file_hash, c_existing, c_paper, c_completed,
               c_rows, c_processed_urls>>

vars == <<cacheVars, queryVars, searchVars, storeVars, buildVars, loaderVars,
          adaptiveVars, embedVars, crawlVars>>

\* what each part leaves alone
nonCacheVars == <<queryVars, searchVars, storeVars, buildVars, loaderVars,
                  adaptiveVars, embedVars, crawlVars>>
nonQueryVars == <<cacheVars, searchVars, storeVars, buildVars, loaderVars,
                  adaptiveVars, embedVars, crawlVars>>
nonSearchVars == <<cacheVars, queryVars, storeVars, buildVars, loaderVars,
                   adaptiveVars, embedVars, crawlVars>>
nonStoreVars == <<cacheVars, queryVars, searchVars, buildVars, loaderVars,
                  adaptiveVars, embedVars, crawlVars>>
nonBuildVars == <<cacheVars, queryVars, searchVars, storeVars, loaderVars,
                  adaptiveVars, embedVars, crawlVars>>
nonLoaderVars == <<cacheVars, queryVars, searchVars, storeVars, buildVars,
                   adaptiveVars, embedVars, crawlVars>>
nonAdaptiveVars == <<cacheVars, queryVars, searchVars, storeVars, buildVars,
                     loaderVars, embedVars, crawlVars>>
nonEmbedVars == <<cacheVars, queryVars, searchVars, storeVars, buildVars,
                  loaderVars, adaptiveVars, crawlVars>>
nonCrawlVars == <<cacheVars, queryVars, searchVars, storeVars, buildVars,
                  loaderVars, adaptiveVars, embedVars>>

Abs(x) == IF x < 0 THEN 0 - x ELSE x

\* the elements of a sequence
Range(f) == {f[i] : i \in DOMAIN f}

(***************************************************************************)
(* Part 1: the snapshot freshness check.                                   *)
(***************************************************************************)
SnapshotFiles == {"faiss_index.bin", "faiss_metadata.pkl", "bm25_index.pkl",
                  "cache_info.json"}

\* data_folder.glob('*.json'): pathlib's glob also yields dot files
DataFiles == {"a.json", "b.json", ".hidden.json"}

\* json_file.name.startswith('.')
StartsWithDot(f) == f = ".hidden.json"

\* number of records with a 'content' or 'title' key a source file may hold
FileSizes == {0, 150}

\* A source file: its st_mtime, whether json.load accepts it, and the number
\* of its records that carry a 'content' or a 'title' key.
DataFileStates ==
    [mtime : 0..MaxTime, parses : {TRUE}, keyed : FileSizes]
    \cup [mtime : 0..MaxTime, parses : {FALSE}, keyed : {150}]

\* the states the environment gives file f; the dot file is never read, so
\* only its mtime varies
StatesOfFile(f) ==
    IF StartsWithDot(f)
    THEN [mtime : 0..MaxTime, parses : {TRUE}, keyed : {150}]
    ELSE DataFileStates

\* cache_info.json: unparseable, or an object with the two keys the check reads
CacheInfoStates ==
    [parses : {FALSE}, timestamp : {0}, document_count : {0}]
    \cup [parses : {TRUE}, timestamp : 0..MaxTime, document_count : {0, 150, 300}]

RECURSIVE SumKeyed(_, _)
SumKeyed(files, S) ==
    IF S = {} THEN 0
    ELSE LET f == CHOOSE x \in S : TRUE
         IN  (IF StartsWithDot(f) \/ ~files[f].parses THEN 0 ELSE files[f].keyed)
             + SumKeyed(files, S \ {f})

\* _count_documents_quickly: returns doc_count, a Python int
CountDocumentsQuickly(files) ==
    [type |-> "int", value |-> SumKeyed(files, DataFiles)]

\* Python's len(): defined on sized containers, TypeError on an int
PyLen(v) ==
    IF v.type = "list" THEN [raised |-> FALSE, value |-> v.value]
    ELSE [raised |-> TRUE, value |-> 0]

\* _is_cache_valid, lines 115-153: every early return and the except clause
IsCacheValid(exists, info, files) ==
    IF ~(\A p \in {"faiss_index.bin", "faiss_metadata.pkl", "bm25_index.pkl"} :
            exists[p])
    THEN FALSE
    ELSE IF ~exists["cache_info.json"] THEN FALSE
    ELSE IF ~info.parses THEN FALSE                 \* json.load raises
    ELSE IF \E f \in DataFiles :
                ~StartsWithDot(f) /\ files[f].mtime > info.timestamp
    THEN FALSE
    ELSE LET n == PyLen(CountDocumentsQuickly(files))
         IN  IF n.raised THEN FALSE                 \* except Exception
             ELSE IF Abs(n.value - info.document_count) > CountTolerance
             THEN FALSE
             ELSE TRUE

CacheInit ==
    /\ snapshot_exists = [p \in SnapshotFiles |-> FALSE]
    /\ cache_info = [parses |-> TRUE, timestamp |-> 0, document_count |-> 0]
    /\ data_files = [f \in DataFiles |->
                        [mtime |-> 0, parses |-> TRUE, keyed |-> 0]]
    /\ cache_pc = "start"
    /\ cache_valid = FALSE

\* the environment between two runs of the process: a snapshot file appears
\* or disappears
SetSnapshotFile ==
    /\ cache_pc = "start"
    /\ \E p \in SnapshotFiles, b \in BOOLEAN :
          snapshot_exists' = [snapshot_exists EXCEPT ![p] = b]
    /\ UNCHANGED <<cache_info, data_files, cache_pc, cache_valid>>
    /\ UNCHANGED nonCacheVars

\* the environment: the manifest is (re)written, possibly damaged
SetCacheInfo ==
    /\ cache_pc = "start"
    /\ \E m \in CacheInfoStates : cache_info' = m
    /\ UNCHANGED <<snapshot_exists, data_files, cache_pc, cache_valid>>
    /\ UNCHANGED nonCacheVars

\* the environment: a source file is rewritten
SetDataFile ==
    /\ cache_pc = "start"
    /\ \E f \in DataFiles : \E s \in StatesOfFile(f) :
          data_files' = [data_files EXCEPT ![f] = s]
    /\ UNCHANGED <<snapshot_exists, cache_info, cache_pc, cache_valid>>
    /\ UNCHANGED nonCacheVars

\* _init_hybrid_search, line 93: the call of _is_cache_valid
CheckCache ==
    /\ cache_pc = "start"
    /\ cache_valid' = IsCacheValid(snapshot_exists, cache_info, data_files)
    /\ cache_pc' = "checked"
    /\ UNCHANGED <<snapshot_exists, cache_info, data_files>>
    /\ UNCHANGED nonCacheVars

\* the process ends; the next start checks again
Restart ==
    /\ cache_pc = "checked"
    /\ cache_pc' = "start"
    /\ cache_valid' = FALSE
    /\ UNCHANGED <<snapshot_exists, cache_info, data_files>>
    /\ UNCHANGED nonCacheVars

CacheNext ==
    \/ SetSnapshotFile
    \/ SetCacheInfo
    \/ SetDataFile
    \/ CheckCache
    \/ Restart

(***************************************************************************)
(* Part 2: EnhancedRAGRetriever.rag_query (api_retriever.py 361-497).      *)
(*                                                                         *)
(* The main thread walks through rag_query one position at a time.  While  *)
(* the SIGALRM timer is armed the handler of line 40 may raise             *)
(* TimeoutException at the position the main thread is at; where it lands  *)
(* is decided by the try blocks that enclose that position.                *)
(***************************************************************************)
Queries == {"q1", "q2"}

\* generate_response, line 359
GenApology == "Maaf, terjadi kesalahan saat memproses permintaan Anda. Silakan coba lagi."
\* rag_query line 438 and _rag_query_fallback line 494
Apology == "Maaf, terjadi kesalahan saat memproses permintaan Anda."
\* timeout_handler, line 42
TimeoutMessage == "Operation timed out"

\* positions of the hybrid path, lines 375-418
HybridPcs == {"search", "legs", "collect", "rerank", "gen_format", "gen_call",
              "build"}
\* positions inside _rag_query_fallback's try block, lines 450-488
FallbackPcs == {"fb_search", "fb_gen_format", "fb_gen_call", "fb_build"}

NoOutcome ==
    [kind |-> "none", error |-> "", query |-> "", response |-> "",
     retrieved_documents |-> << >>,
     metadata |-> [search_engine |-> "", error |-> FALSE,
                   total_documents_available |-> FALSE]]

\* an exception leaves rag_query
Raised(msg) == [NoOutcome EXCEPT !.kind = "raised", !.error = msg]

\* lines 390-416: the result of the hybrid path
MainResult(q, docs, resp, uh) ==
    [kind |-> "returned", error |-> "", query |-> q, response |-> resp,
     retrieved_documents |-> docs,
     metadata |-> [search_engine |-> IF uh THEN "hybrid" ELSE "original",
                   error |-> FALSE, total_documents_available |-> TRUE]]

\* lines 464-488: the result of _rag_query_fallback
FallbackResult(q, docs, resp) ==
    [kind |-> "returned", error |-> "", query |-> q, response |-> resp,
     retrieved_documents |-> docs,
     metadata |-> [search_engine |-> "original_fallback", error |-> FALSE,
                   total_documents_available |-> FALSE]]

\* lines 490-497: _rag_query_fallback's except clause
FallbackError(q, msg) ==
    [kind |-> "returned", error |-> msg, query |-> q, response |-> Apology,
     retrieved_documents |-> << >>,
     metadata |-> [search_engine |-> "", error |-> TRUE,
                   total_documents_available |-> FALSE]]

\* lines 434-441: the inner except clause of the exception handler
BothFailed(q, msg) ==
    [kind |-> "returned", error |-> "Both hybrid and fallback failed: " \o msg,
     query |-> q, response |-> Apology, retrieved_documents |-> << >>,
     metadata |-> [search_engine |-> "", error |-> TRUE,
                   total_documents_available |-> FALSE]]

\* the engine's second dispatch ignores the flag
SearchDocumentsAlwaysHybrid(uh) == "hybrid"

\* search_documents, lines 301-306
SearchDocumentsEngine(uh) == IF uh THEN "hybrid" ELSE "original"

\* vector_db as the dict line 407 takes it for
VectorDbIsDict == TRUE

\* whether hybrid_engine.vector_db answers .get(): it is a FaissVectorDB, a
\* class that defines no get and no __getattr__
VectorDbHasGet == FALSE

\* line 407: getattr(self.hybrid_engine, 'vector_db', {}).get(...) when
\* use_hybrid, else len(getattr(self.original_retriever, 'documents', []))
BuildResultRaises(uh, ho) == IF uh THEN ~VectorDbHasGet ELSE ~ho

\* __init__, lines 60-71: hybrid initialised, or the original retriever was
\* built (a failure of that propagates out of the constructor)
QueryInit ==
    /\ \/ use_hybrid = TRUE /\ has_original = FALSE
       \/ use_hybrid = FALSE /\ has_original = TRUE
    /\ alarm = "off"
    /\ pc = "idle"
    /\ handler = "none"
    /\ cur_query = ""
    /\ collected = 0
    /\ retrieved_docs = << >>
    /\ response = ""
    /\ outcome = NoOutcome
    /\ engine_called = "none"
    /\ deadline_at = "none"
    /\ hybrid_exc = "none"
    /\ search_ok = FALSE
    /\ gen_ok = FALSE
    /\ reinit_calls = 0
    /\ fallback_calls = 0
    /\ queries_done = 0

\* the query part at rest, for the specifications that do not exercise it
QueryQuiet == QueryInit /\ use_hybrid = TRUE

\* the locals of a call, unchanged
LocalsUnchanged ==
    UNCHANGED <<cur_query, collected, retrieved_docs, response, engine_called,
                search_ok, gen_ok>>

\* rag_query lines 365-373: the direct fallback, or arming the deadline
StartQuery ==
    /\ pc = "idle"
    /\ queries_done < MaxQueries
    /\ \E q \in Queries : cur_query' = q
    /\ IF ~use_hybrid /\ has_original
       THEN /\ handler' = "direct"
            /\ pc' = "fb_search"
            /\ fallback_calls' = 1
            /\ alarm' = alarm
       ELSE /\ handler' = "none"
            /\ pc' = "search"
            /\ fallback_calls' = 0
            /\ alarm' = "armed"
    /\ collected' = 0
    /\ retrieved_docs' = << >>
    /\ response' = ""
    /\ outcome' = NoOutcome
    /\ engine_called' = "none"
    /\ deadline_at' = "none"
    /\ hybrid_exc' = "none"
    /\ search_ok' = FALSE
    /\ gen_ok' = FALSE
    /\ reinit_calls' = 0
    /\ UNCHANGED <<use_hybrid, has_original, queries_done>>
    /\ UNCHANGED nonQueryVars

\* line 379 with search_documents, lines 303-306: the hybrid engine is asked,
\* or self.original_retriever is read (AttributeError when it was never set)
SearchDocuments ==
    /\ pc = "search"
    /\ LET e == SearchDocumentsEngine(use_hybrid)
       IN  /\ engine_called' = e
           /\ IF e = "hybrid"
              THEN pc' = "legs" /\ UNCHANGED <<hybrid_exc, handler>>
              ELSE IF has_original
              THEN pc' = "gen_format" /\ UNCHANGED <<hybrid_exc, handler>>
              ELSE /\ pc' = "on_exception"
                   /\ hybrid_exc' = "exception"
                   /\ handler' = "exception"
    /\ UNCHANGED <<use_hybrid, has_original, alarm, cur_query, collected,
                   retrieved_docs, response, outcome, deadline_at, search_ok,
                   gen_ok, reinit_calls, fallback_calls, queries_done>>
    /\ UNCHANGED nonQueryVars

\* hybrid_search_engine.py 163-169: the main thread waits in as_completed
\* until one of the two legs has finished
LegCompletes ==
    /\ pc = "legs"
    /\ pc' = "collect"
    /\ UNCHANGED <<use_hybrid, has_original, alarm, handler, outcome,
                   deadline_at, hybrid_exc, reinit_calls, fallback_calls,
                   queries_done>>
    /\ LocalsUnchanged
    /\ UNCHANGED nonQueryVars

\* hybrid_search_engine.py 170-176: future.result() inside try
CollectResult ==
    /\ pc = "collect"
    /\ collected' = collected + 1
    /\ pc' = IF collected + 1 = 2 THEN "rerank" ELSE "legs"
    /\ UNCHANGED <<use_hybrid, has_original, alarm, handler, cur_query,
                   retrieved_docs, response, outcome, engine_called,
                   deadline_at, hybrid_exc, search_ok, gen_ok,
                   reinit_calls, fallback_calls, queries_done>>
    /\ UNCHANGED nonQueryVars

\* hybrid_search_engine.py 139-156: re-ranking; search returns its list
RerankReturns ==
    /\ pc = "rerank"
    /\ \E docs \in {<< >>, <<"hybrid_doc">>} : retrieved_docs' = docs
    /\ search_ok' = TRUE
    /\ pc' = "gen_format"
    /\ UNCHANGED <<use_hybrid, has_original, alarm, handler, cur_query,
                   collected, response, outcome, engine_called, deadline_at,
                   hybrid_exc, gen_ok, reinit_calls, fallback_calls,
                   queries_done>>
    /\ UNCHANGED nonQueryVars

\* the hybrid search raises (nothing in search or _rerank_results catches)
HybridSearchRaises ==
    /\ pc = "rerank"
    /\ pc' = "on_exception"
    /\ hybrid_exc' = "exception"
    /\ handler' = "exception"
    /\ UNCHANGED <<use_hybrid, has_original, alarm, outcome, deadline_at,
                   reinit_calls, fallback_calls, queries_done>>
    /\ LocalsUnchanged
    /\ UNCHANGED nonQueryVars

\* generate_response lines 325-351: the prompt is formatted, outside its try
GenFormat ==
    /\ pc \in {"gen_format", "fb_gen_format"}
    /\ pc' = IF pc = "gen_format" THEN "gen_call" ELSE "fb_gen_call"
    /\ UNCHANGED <<use_hybrid, has_original, alarm, handler, outcome,
                   deadline_at, hybrid_exc, reinit_calls, fallback_calls,
                   queries_done>>
    /\ LocalsUnchanged
    /\ UNCHANGED nonQueryVars

\* generate_response lines 353-356: the generator answers
GeneratorReturns ==
    /\ pc \in {"gen_call", "fb_gen_call"}
    /\ response' = IF pc = "gen_call" THEN "answer_hybrid" ELSE "answer_fallback"
    /\ gen_ok' = (gen_ok \/ pc = "gen_call")
    /\ pc' = IF pc = "gen_call" THEN "build" ELSE "fb_build"
    /\ UNCHANGED <<use_hybrid, has_original, alarm, handler, cur_query,
                   collected, retrieved_docs, outcome, engine_called,
                   deadline_at, hybrid_exc, search_ok,
                   reinit_calls, fallback_calls, queries_done>>
    /\ UNCHANGED nonQueryVars

\* generate_response lines 357-359: the generator raises, the apology is
\* returned
GeneratorRaises ==
    /\ pc \in {"gen_call", "fb_gen_call"}
    /\ response' = GenApology
    /\ pc' = IF pc = "gen_call" THEN "build" ELSE "fb_build"
    /\ UNCHANGED <<use_hybrid, has_original, alarm, handler, cur_query,
                   collected, retrieved_docs, outcome, engine_called,
                   deadline_at, hybrid_exc, search_ok, gen_ok, reinit_calls,
                   fallback_calls, queries_done>>
    /\ UNCHANGED nonQueryVars

\* lines 387-418: the result is built and returned, unless line 407 raises
BuildResult ==
    /\ pc = "build"
    /\ IF BuildResultRaises(use_hybrid, has_original)
       THEN /\ pc' = "on_exception"
            /\ hybrid_exc' = "exception"
            /\ handler' = "exception"
            /\ outcome' = outcome
       ELSE /\ pc' = "finally"
            /\ outcome' = MainResult(cur_query, retrieved_docs, response,
                                     use_hybrid)
            /\ UNCHANGED <<hybrid_exc, handler>>
    /\ UNCHANGED <<use_hybrid, has_original, alarm, deadline_at, reinit_calls,
                   fallback_calls, queries_done>>
    /\ LocalsUnchanged
    /\ UNCHANGED nonQueryVars

\* lines 420-423 and 427-431: either handler marks the engine degraded
MarkDegraded ==
    /\ pc \in {"on_timeout", "on_exception"}
    /\ use_hybrid' = FALSE
    /\ pc' = "reinit"
    /\ UNCHANGED <<has_original, alarm, handler, outcome, deadline_at,
                   hybrid_exc, reinit_calls, fallback_calls, queries_done>>
    /\ LocalsUnchanged
    /\ UNCHANGED nonQueryVars

\* lines 424-425 and 432-433: _init_original_search succeeds and
\* _rag_query_fallback is called
ReinitReturns ==
    /\ pc = "reinit"
    /\ has_original' = TRUE
    /\ reinit_calls' = reinit_calls + 1
    /\ fallback_calls' = fallback_calls + 1
    /\ pc' = "fb_search"
    /\ UNCHANGED <<use_hybrid, alarm, handler, outcome, deadline_at,
                   hybrid_exc, queries_done>>
    /\ LocalsUnchanged
    /\ UNCHANGED nonQueryVars

\* _init_original_search raises: line 424 has no try around it, line 432 is
\* inside the try of line 430
ReinitRaises ==
    /\ pc = "reinit"
    /\ reinit_calls' = reinit_calls + 1
    /\ outcome' = IF handler = "timeout"
                  THEN Raised("reinit failed")
                  ELSE BothFailed(cur_query, "reinit failed")
    /\ pc' = "finally"
    /\ UNCHANGED <<use_hybrid, has_original, alarm, handler, deadline_at,
                   hybrid_exc, fallback_calls, queries_done>>
    /\ LocalsUnchanged
    /\ UNCHANGED nonQueryVars

\* where _rag_query_fallback's return value goes: to the caller (line 368)
\* or through the finally clause (lines 425, 433)
AfterFallback == IF handler = "direct" THEN "done" ELSE "finally"

\* line 454: the original retriever returns its documents
FallbackSearchReturns ==
    /\ pc = "fb_search"
    /\ has_original
    /\ \E docs \in {<< >>, <<"original_doc">>} : retrieved_docs' = docs
    /\ pc' = "fb_gen_format"
    /\ UNCHANGED <<use_hybrid, has_original, alarm, handler, cur_query,
                   collected, response, outcome, engine_called, deadline_at,
                   hybrid_exc,
                   search_ok, gen_ok, reinit_calls, fallback_calls,
                   queries_done>>
    /\ UNCHANGED nonQueryVars

\* line 454 raises; lines 490-497 return the error result
FallbackSearchRaises ==
    /\ pc = "fb_search"
    /\ outcome' = FallbackError(cur_query, "fallback search failed")
    /\ pc' = AfterFallback
    /\ UNCHANGED <<use_hybrid, has_original, alarm, handler, cur_query,
                   collected, retrieved_docs, response, engine_called,
                   deadline_at,
                   hybrid_exc, search_ok, gen_ok, reinit_calls,
                   fallback_calls, queries_done>>
    /\ UNCHANGED nonQueryVars

\* lines 464-488: the fallback result is built and returned
FallbackBuildResult ==
    /\ pc = "fb_build"
    /\ outcome' = FallbackResult(cur_query, retrieved_docs, response)
    /\ pc' = AfterFallback
    /\ UNCHANGED <<use_hybrid, has_original, alarm, handler, deadline_at,
                   hybrid_exc, reinit_calls, fallback_calls, queries_done>>
    /\ LocalsUnchanged
    /\ UNCHANGED nonQueryVars

\* the timer is left as it is
KeepAlarm(a) == a

\* line 445: signal.alarm(0) cancels a pending timer
CancelAlarm(a) == "off"

\* lines 442-445: signal.alarm(0), then the return value or the exception
\* reaches the caller
Finally ==
    /\ pc = "finally"
    /\ alarm' = CancelAlarm(alarm)
    /\ pc' = "done"
    /\ UNCHANGED <<use_hybrid, has_original, handler, outcome, deadline_at,
                   hybrid_exc, reinit_calls, fallback_calls, queries_done>>
    /\ LocalsUnchanged
    /\ UNCHANGED nonQueryVars

\* the caller has the outcome; the retriever is ready for the next call
FinishQuery ==
    /\ pc = "done"
    /\ pc' = "idle"
    /\ queries_done' = queries_done + 1
    /\ UNCHANGED <<use_hybrid, has_original, alarm, handler, outcome,
                   deadline_at, hybrid_exc, reinit_calls, fallback_calls>>
    /\ LocalsUnchanged
    /\ UNCHANGED nonQueryVars

\* Where a TimeoutException raised at position p is caught:
\*   "line420"  - it leaves the hybrid path to rag_query's except
\*                TimeoutException;
\*   "leg_try"  - hybrid_search_engine.py 175, except Exception around
\*                future.result(): logged, the leg's result is dropped;
\*   "gen_try"  - generate_response line 357, except Exception: the apology
\*                string is returned as the response;
\*   "line434"  - the inner except Exception of the exception handler;
\*   "line490"  - _rag_query_fallback's except Exception;
\*   "caller"   - nothing encloses p (line 428 in the except clause, line 445
\*                in the finally clause): the exception leaves rag_query.
CaughtAt(p) ==
    CASE p \in {"search", "legs", "rerank", "gen_format", "build"} -> "line420"
      [] p = "collect" -> "leg_try"
      [] p \in {"gen_call", "fb_gen_call"} -> "gen_try"
      [] p = "reinit" -> "line434"
      [] p \in {"fb_search", "fb_gen_format", "fb_build"} -> "line490"
      [] OTHER -> "caller"

\* signal.alarm expires: timeout_handler (lines 40-42) raises
\* TimeoutException in the main thread, wherever it is
DeadlineFires ==
    /\ alarm = "armed"
    /\ pc \notin {"idle", "done"}
    /\ alarm' = "off"
    /\ deadline_at' = pc
    /\ LET c == CaughtAt(pc)
       IN  /\ pc' = CASE c = "line420" -> "on_timeout"
                      [] c = "leg_try" ->
                            IF collected + 1 = 2 THEN "rerank" ELSE "legs"
                      [] c = "gen_try" ->
                            IF pc = "gen_call" THEN "build" ELSE "fb_build"
                      [] c = "line434" -> "finally"
                      [] c = "line490" -> AfterFallback
                      [] OTHER -> IF pc = "finally" THEN "done" ELSE "finally"
           /\ handler' = IF c = "line420" THEN "timeout" ELSE handler
           /\ hybrid_exc' = IF c = "line420" THEN "timeout" ELSE hybrid_exc
           /\ collected' = IF c = "leg_try" THEN collected + 1 ELSE collected
           /\ response' = IF c = "gen_try" THEN GenApology ELSE response
           /\ reinit_calls' = IF c = "line434" THEN reinit_calls + 1
                              ELSE reinit_calls
           /\ outcome' = CASE c = "line434" ->
                                BothFailed(cur_query, TimeoutMessage)
                           [] c = "line490" ->
                                FallbackError(cur_query, TimeoutMessage)
                           [] c = "caller" -> Raised(TimeoutMessage)
                           [] OTHER -> outcome
    /\ UNCHANGED <<use_hybrid, has_original, cur_query, retrieved_docs,
                   engine_called, search_ok, gen_ok, fallback_calls,
                   queries_done>>
    /\ UNCHANGED nonQueryVars

QueryNext ==
    \/ StartQuery
    \/ SearchDocuments
    \/ LegCompletes
    \/ CollectResult
    \/ RerankReturns
    \/ HybridSearchRaises
    \/ GenFormat
    \/ GeneratorReturns
    \/ GeneratorRaises
    \/ BuildResult
    \/ MarkDegraded
    \/ ReinitReturns
    \/ ReinitRaises
    \/ FallbackSearchReturns
    \/ FallbackSearchRaises
    \/ FallbackBuildResult
    \/ Finally
    \/ FinishQuery
    \/ DeadlineFires

(***************************************************************************)
(* Part 3: BM25Search, FaissVectorDB and HybridSearchEngine.               *)
(*                                                                         *)
(* A text is the sequence of its whitespace-separated words.  The scores   *)
(* of the two external libraries (rank_bm25, faiss) are real numbers; the  *)
(* model keeps them as integers that are a positive multiple of the value  *)
(* the library computes from the same counts, so that sign, zero and order *)
(* within one search are kept.                                             *)
(***************************************************************************)
\* a document dictionary without the key 'id'
NoId == "<absent>"

\* The documents the model adds.  emb is the embedding lines 172-183 of
\* faiss_vector_db.py arrive at for the document (given or created); Doc2
\* and Doc3 have no id and the same title, Doc4 has only stop-words, Doc5
\* has an embedding of zeros.
Doc1 == [id |-> "a", title |-> "Flu", content |-> <<"demam", "batuk">>,
         emb |-> <<2, 1>>]
Doc2 == [id |-> NoId, title |-> "Asma", content |-> <<"batuk", "batuk">>,
         emb |-> <<1, 2>>]
Doc3 == [id |-> NoId, title |-> "Asma", content |-> <<"symptoms", "yang">>,
         emb |-> <<1, 0>>]
Doc4 == [id |-> "d", title |-> "", content |-> <<"yang">>, emb |-> <<0, 1>>]
Doc5 == [id |-> "e", title |-> "", content |-> <<"Demam">>, emb |-> <<0, 0>>]

DocPool == {Doc1, Doc2, Doc3, Doc4, Doc5}

\* the queries the model asks
SearchQueries == {<< >>, <<"yang">>, <<"x", "?", "yang">>, <<"batuk">>,
                  <<"Demam", "batuk">>, <<"symptoms">>, <<"Asma">>}

Min(a, b) == IF a < b THEN a ELSE b

\* a list with every element computed, once
List(f) == f \o << >>

RECURSIVE SumOver(_, _)
\* the sum of f over the set S
SumOver(f, S) ==
    IF S = {} THEN 0
    ELSE LET x == CHOOSE y \in S : TRUE
         IN  f[x] + SumOver(f, S \ {x})

\* ---- BM25Search.preprocess_text, bm25_search.py 104-147 ----

\* line 119, text.lower(), on the words of the model
Lower(w) ==
    CASE w = "Flu" -> "flu"
      [] w = "Asma" -> "asma"
      [] w = "Demam" -> "demam"
      [] w = "Gejala" -> "gejala"
      [] OTHER -> w

\* line 122, re.sub(r'[^a-zA-Z0-9\s]', ' ', text): a word of punctuation
\* becomes white space
Alnum(w) == IF w = "?" THEN "" ELSE w

\* lines 63-76: the stop-words of the model's vocabulary
StopWords == {"yang"}

\* line 143, PorterStemmer.stem, on the words of the model
Stem(t) == IF t = "symptoms" THEN "symptom" ELSE t

RECURSIVE PreprocessText(_)
PreprocessText(text) ==
    IF text = << >> THEN << >>
    ELSE LET token == Alnum(Lower(Head(text)))
             rest == PreprocessText(Tail(text))
         IN  IF token = "" THEN rest
             ELSE IF Len(token) < min_word_length THEN rest
             ELSE IF token \in StopWords THEN rest
             ELSE <<Stem(token)>> \o rest

\* ---- BM25Search.add_documents, bm25_search.py 149-186 ----

\* lines 169-170: f"{title} {content}".strip()
FullText(d) == (IF d.title = "" THEN << >> ELSE <<d.title>>) \o d.content

\* lines 165-179: the documents of the batch that have content and tokens
RECURSIVE Bm25Accepted(_)
Bm25Accepted(batch) ==
    IF batch = << >> THEN << >>
    ELSE LET d == Head(batch)
         IN  IF d.content = << >> \/ PreprocessText(FullText(d)) = << >>
             THEN Bm25Accepted(Tail(batch))
             ELSE <<d>> \o Bm25Accepted(Tail(batch))

\* self.tokenized_docs, aligned with self.documents
TokenizedDocs(docs) ==
    List([i \in 1..Len(docs) |-> PreprocessText(FullText(docs[i]))])

\* ---- BM25Okapi (rank_bm25), built at line 183, asked at line 207 ----

\* the number of times token t occurs in toks
TermCount(t, toks) == Cardinality({i \in 1..Len(toks) : toks[i] = t})

Bm25Vocabulary(tokenized_docs) ==
    UNION {Range(tokenized_docs[i]) : i \in 1..Len(tokenized_docs)}

\* the number of documents that hold t
DocFreq(t, tokenized_docs) ==
    Cardinality({i \in 1..Len(tokenized_docs) :
                    TermCount(t, tokenized_docs[i]) > 0})

\* log(N - n + 0.5) - log(n + 0.5) has the sign of N - 2n
IdfRaw(t, tokenized_docs) ==
    Len(tokenized_docs) - 2 * DocFreq(t, tokenized_docs)

\* _calc_idf: a negative idf is replaced by epsilon (0.25) times the average
\* idf; all idf values are held multiplied by 4 * |vocabulary|
Idf(tokenized_docs) ==
    LET V == Bm25Vocabulary(tokenized_docs)
        raw == [u \in V |-> IdfRaw(u, tokenized_docs)]
        total == SumOver(raw, V)
    IN  [u \in V |-> IF raw[u] < 0 THEN total
                                   ELSE 4 * Cardinality(V) * raw[u]]

\* get_scores: for every document the sum over the query tokens of idf
\* times the term's weight in the document, which is positive exactly when
\* the term occurs
Bm25Scores(query_tokens, tokenized_docs) ==
    LET idf == Idf(tokenized_docs)
        w(t) == IF t \in DOMAIN idf THEN idf[t] ELSE 0
    IN  List([i \in 1..Len(tokenized_docs) |->
                SumOver([j \in 1..Len(query_tokens) |->
                            w(query_tokens[j])
                              * TermCount(query_tokens[j], tokenized_docs[i])],
                        1..Len(query_tokens))])

\* ---- BM25Search.search, bm25_search.py 188-228 ----

\* line 210, np.argsort(scores)[::-1]: descending, equal scores with the
\* higher index first
ArgsortReversed(scores) ==
    LET n == Len(scores)
        pos(i) == 1 + Cardinality({j \in 1..n :
                        \/ scores[j] > scores[i]
                        \/ scores[j] = scores[i] /\ j > i})
    IN  List([p \in 1..n |-> CHOOSE i \in 1..n : pos(i) = p])

\* a zero score is kept
SkipNegativeOnly(score) == score < 0

\* line 214, "if scores[idx] <= 0: continue"
SkipScore(score) == score <= 0

Bm25SearchHits(docs, query, top_k) ==
    IF docs = << >> THEN << >>
    ELSE LET query_tokens == PreprocessText(query)
         IN  IF query_tokens = << >> THEN << >>
             ELSE LET scores == Bm25Scores(query_tokens, TokenizedDocs(docs))
                      order == ArgsortReversed(scores)
                      top_indices == SubSeq(order, 1, Min(top_k, Len(docs)))
                      cand == List([i \in 1..Len(top_indices) |->
                                 [doc |-> docs[top_indices[i]],
                                  bm25_score |-> scores[top_indices[i]],
                                  rank |-> i]])
                  IN  SelectSeq(cand, LAMBDA h : ~SkipScore(h.bm25_score))

\* ---- FaissVectorDB, faiss_vector_db.py ----

\* np.any(embedding), lines 183 and 230
AnyNonZero(e) == \E i \in 1..Len(e) : e[i] # 0

\* add_documents lines 166-187: the documents of the batch that have content
\* and an embedding that is not all zeros
RECURSIVE VdbAccepted(_)
VdbAccepted(batch) ==
    IF batch = << >> THEN << >>
    ELSE LET d == Head(batch)
         IN  IF d.content = << >> \/ ~AnyNonZero(d.emb)
             THEN VdbAccepted(Tail(batch))
             ELSE <<d>> \o VdbAccepted(Tail(batch))

\* the embedding model on one word
WordVec(w) ==
    CASE w = "demam" -> <<2, 0>>
      [] w = "batuk" -> <<0, 2>>
      [] OTHER -> <<1, 1>>

RECURSIVE SumVec(_)
SumVec(text) ==
    IF text = << >> THEN <<0, 0>>
    ELSE LET v == WordVec(Lower(Head(text)))
             r == SumVec(Tail(text))
         IN  <<v[1] + r[1], v[2] + r[2]>>

\* create_query_embedding, lines 119-138, with the sentence-transformers
\* model the engine is built with: every text, the empty one too, has an
\* embedding that is not zero
QueryEmbedding(query) == IF query = << >> THEN <<1, 1>> ELSE SumVec(query)

\* IndexFlatIP: the inner product
InnerProduct(a, b) == a[1] * b[1] + a[2] * b[2]

\* index.search, line 241: descending, equal scores with the lower index
\* first
FaissOrder(scores) ==
    LET n == Len(scores)
        pos(i) == 1 + Cardinality({j \in 1..n :
                        \/ scores[j] > scores[i]
                        \/ scores[j] = scores[i] /\ j < i})
    IN  List([p \in 1..n |-> CHOOSE i \in 1..n : pos(i) = p])

\* FaissVectorDB.search, lines 213-257
VdbSearchHits(docs, query, top_k) ==
    IF docs = << >> THEN << >>
    ELSE LET query_embedding == QueryEmbedding(query)
         IN  IF ~AnyNonZero(query_embedding) THEN << >>
             ELSE LET scores == List([i \in 1..Len(docs) |->
                                InnerProduct(query_embedding, docs[i].emb)])
                      order == FaissOrder(scores)
                      indices == SubSeq(order, 1, Min(top_k, Len(docs)))
                  IN  List([i \in 1..Len(indices) |->
                         [doc |-> docs[indices[i]],
                          similarity_score |-> scores[indices[i]],
                          rank |-> i]])

\* ---- HybridSearchEngine, hybrid_search_engine.py ----

\* _vector_search, lines 186-196, and _keyword_search, lines 198-208
VectorSearch(vdocs, query) == VdbSearchHits(vdocs, query, vector_top_k)
KeywordSearch(kdocs, query) == Bm25SearchHits(kdocs, query, keyword_top_k)

\* _sequential_search, lines 180-184
SequentialSearch(vdocs, kdocs, query) ==
    <<VectorSearch(vdocs, query), KeywordSearch(kdocs, query)>>

\* dict.get(field, default) on a result
Get(r, field, default) == IF field \in DOMAIN r THEN r[field] ELSE default

\* lines 235 and 249: result.get('id', result.get('title', ''))
DocKey(r) == IF r.doc.id # NoId THEN r.doc.id ELSE r.doc.title

\* the position of key in the dictionary all_docs, 0 when it is not a key
IndexOfKey(all_docs, key) ==
    IF \E i \in 1..Len(all_docs) : all_docs[i].key = key
    THEN CHOOSE i \in 1..Len(all_docs) : all_docs[i].key = key
    ELSE 0

\* lines 234-245, one turn of the loop over vector_results; a field the
\* code leaves unset is held as 0 with its has_ flag false
MergeVector(all_docs, result, n) ==
    LET doc_id == DocKey(result)
        i == IndexOfKey(all_docs, doc_id)
        score == Get(result, "similarity_score", 0)
        rank == Get(result, "rank", n)
    IN  IF i = 0
        THEN Append(all_docs,
                    [key |-> doc_id, doc |-> result.doc,
                     vector_score |-> score, vector_rank |-> rank,
                     keyword_score |-> 0, keyword_rank |-> 0,
                     has_vector |-> TRUE, has_keyword |-> FALSE,
                     combined_score |-> 0, final_rank |-> 0])
        ELSE [all_docs EXCEPT ![i].vector_score = score,
                              ![i].vector_rank = rank,
                              ![i].has_vector = TRUE]

\* lines 248-259, one turn of the loop over keyword_results
MergeKeyword(all_docs, result, n) ==
    LET doc_id == DocKey(result)
        i == IndexOfKey(all_docs, doc_id)
        score == Get(result, "bm25_score", 0)
        rank == Get(result, "rank", n)
    IN  IF i = 0
        THEN Append(all_docs,
                    [key |-> doc_id, doc |-> result.doc,
                     vector_score |-> 0, vector_rank |-> 0,
                     keyword_score |-> score, keyword_rank |-> rank,
                     has_vector |-> FALSE, has_keyword |-> TRUE,
                     combined_score |-> 0, final_rank |-> 0])
        ELSE [all_docs EXCEPT ![i].keyword_score = score,
                              ![i].keyword_rank = rank,
                              ![i].has_keyword = TRUE]

RECURSIVE MergeAll(_, _, _, _)
\* the loops of lines 234 and 248 from turn i on
MergeAll(all_docs, results, i, leg) ==
    IF i > Len(results) THEN all_docs
    ELSE MergeAll(IF leg = "vector"
                  THEN MergeVector(all_docs, results[i], Len(results))
                  ELSE MergeKeyword(all_docs, results[i], Len(results)),
                  results, i + 1, leg)

MaxOf(S) == CHOOSE x \in S : \A y \in S : y <= x
MinOf(S) == CHOOSE x \in S : \A y \in S : x <= y

\* the score is divided by the range without the minimum taken off
ShiftNone(x, lo) == x

\* MinMaxScaler.fit_transform, lines 284 and 290: x goes to
\* (x - min) / (max - min); Shift is the numerator
Shift(x, lo) == x - lo

\* the denominator max - min of MinMaxScaler, 1 when max = min (the
\* scaler then maps every x to 0)
ScoreRange(scores) ==
    IF MaxOf(scores) = MinOf(scores) THEN 1
    ELSE MaxOf(scores) - MinOf(scores)

\* lines 278-279: the scores of the two legs, 0.0 where a leg did not
\* return the entry
VectorScores(documents) ==
    {documents[i].vector_score : i \in 1..Len(documents)}

KeywordScores(documents) ==
    {documents[i].keyword_score : i \in 1..Len(documents)}

\* lines 282-286 and 296: normalized_vector_score of entry i, held
\* multiplied by ScoreRange(VectorScores(documents))
NormalizedVector(documents, i) ==
    IF MaxOf(VectorScores(documents)) > 0 /\ documents[i].has_vector
    THEN Shift(documents[i].vector_score, MinOf(VectorScores(documents)))
    ELSE 0

\* lines 288-292 and 297: normalized_keyword_score of entry i, held
\* multiplied by ScoreRange(KeywordScores(documents))
NormalizedKeyword(documents, i) ==
    IF MaxOf(KeywordScores(documents)) > 0 /\ documents[i].has_keyword
    THEN Shift(documents[i].keyword_score, MinOf(KeywordScores(documents)))
    ELSE 0

\* _weighted_sum_rerank, lines 275-307.  MinMaxScaler maps x to
\* (x - min) / (max - min), and to 0 when max = min; combined_score is held
\* multiplied by 10 * (vector range) * (keyword range).
WeightedSumRerank(documents, vw, kw) ==
    LET idx == 1..Len(documents)
        vrange == ScoreRange(VectorScores(documents))
        krange == ScoreRange(KeywordScores(documents))
        vnorm == List([i \in idx |-> NormalizedVector(documents, i)])
        knorm == List([i \in idx |-> NormalizedKeyword(documents, i)])
    IN  List([i \in idx |->
            [documents[i] EXCEPT !.combined_score =
                vw * vnorm[i] * krange + kw * knorm[i] * vrange]])

\* 1/(k + rank) is held multiplied by RrfScale
RrfScale == (RrfK + 1) * (RrfK + 2) * (RrfK + 3) * (RrfK + 4) * (RrfK + 5)

\* _reciprocal_rank_fusion, lines 309-326
ReciprocalRankFusion(documents) ==
    List([i \in 1..Len(documents) |->
        [documents[i] EXCEPT !.combined_score =
            (IF documents[i].has_vector
             THEN RrfScale \div (RrfK + documents[i].vector_rank) ELSE 0)
          + (IF documents[i].has_keyword
             THEN RrfScale \div (RrfK + documents[i].keyword_rank) ELSE 0)]])

\* line 334
MedicalTerms == {"penyakit", "gejala", "diagnosis", "pengobatan", "terapi"}

\* line 337, '"' in query, for one word of the model
HasQuote(w) == w \in {"\"demam\"", "\"batuk\""}

\* line 334, term in query.lower(), for one word of the model: the term
\* may be a part of the word
ContainsMedicalTerm(w) ==
    \/ Lower(w) \in MedicalTerms
    \/ Lower(w) = "gejalanya"

\* the trigger terms are looked at first
TermsBeforeShort(short_or_quoted, has_medical_terms) ==
    IF has_medical_terms THEN "vector"
    ELSE IF short_or_quoted THEN "keyword"
    ELSE "default"

\* lines 340-352: the branch taken
AdaptiveBranch(short_or_quoted, has_medical_terms) ==
    IF short_or_quoted THEN "keyword"
    ELSE IF has_medical_terms THEN "vector"
    ELSE "default"

\* _adaptive_rerank, lines 331-352: the weights it runs the weighted sum
\* with, times 10; the query is the list query.split(), vw and kw are
\* self.vector_weight and self.keyword_weight as lines 350-351 read them
AdaptiveWeights(query, vw, kw) ==
    LET is_short_query == Len(query) <= 3
        has_exact_phrases == \E i \in 1..Len(query) : HasQuote(query[i])
        has_medical_terms == \E i \in 1..Len(query) :
                                ContainsMedicalTerm(query[i])
        branch == AdaptiveBranch(has_exact_phrases \/ is_short_query,
                                 has_medical_terms)
    IN  IF branch = "keyword" THEN <<3, 7>>
        ELSE IF branch = "vector" THEN <<7, 3>>
        ELSE <<vw, kw>>

\* line 272, sort(key=combined_score, reverse=True): stable, descending
SortByCombined(documents) ==
    LET n == Len(documents)
        c(i) == documents[i].combined_score
        pos(i) == 1 + Cardinality({j \in 1..n :
                        \/ c(j) > c(i)
                        \/ c(j) = c(i) /\ j < i})
    IN  List([p \in 1..n |-> documents[CHOOSE i \in 1..n : pos(i) = p]])

\* the whole list is returned
NoTruncate(documents, top_k) == documents

\* line 273, combined_docs[:top_k]
Truncate(documents, top_k) == SubSeq(documents, 1, Min(top_k, Len(documents)))

\* lines 228-258: the dictionary all_docs after both loops
MergedDocs(vres, kres) ==
    MergeAll(MergeAll(<< >>, vres, 1, "vector"), kres, 1, "keyword")

\* _rerank_results, lines 210-273
RerankResults(method, query, vres, kres, top_k) ==
    IF vres = << >> /\ kres = << >> THEN << >>
    ELSE LET all_docs == MergedDocs(vres, kres)
             combined_docs ==
                 CASE method = "rrf" -> ReciprocalRankFusion(all_docs)
                   [] method = "adaptive" ->
                        LET w == AdaptiveWeights(query, vector_weight,
                                                 keyword_weight)
                        IN  WeightedSumRerank(all_docs, w[1], w[2])
                   [] OTHER ->
                        WeightedSumRerank(all_docs, vector_weight,
                                          keyword_weight)
         IN  Truncate(SortByCombined(combined_docs), top_k)

\* search lines 148-152: final_rank is the position in the returned list
WithFinalRank(results) ==
    List([i \in 1..Len(results) |-> [results[i] EXCEPT !.final_rank = i]])

\* ---- the engine as a state machine ----

Legs == {"vector", "keyword"}
RerankMethods == {"weighted_sum", "rrf", "adaptive"}

\* HybridSearchEngine.__init__, lines 31-86: empty indexes, a configuration
SearchInit ==
    /\ vdb_documents = << >>
    /\ bm25_documents = << >>
    /\ use_parallel_search \in BOOLEAN
    /\ rerank_method \in RerankMethods
    /\ api = "none"
    /\ search_pc = "idle"
    /\ s_query = << >>
    /\ s_top_k = 0
    /\ leg_state = [l \in Legs |-> "idle"]
    /\ leg_result = [l \in Legs |-> << >>]
    /\ completed = << >>
    /\ n_collected = 0
    /\ vector_results = << >>
    /\ keyword_results = << >>
    /\ final_results = << >>

\* the engine as api_retriever.py lines 83-90 builds it, at rest
SearchQuiet ==
    SearchInit /\ use_parallel_search = TRUE /\ rerank_method = "adaptive"

ConfigUnchanged == UNCHANGED <<use_parallel_search, rerank_method>>
IndexesUnchanged == UNCHANGED <<vdb_documents, bm25_documents>>

\* HybridSearchEngine.add_documents, lines 90-115, with a batch of one
\* document: FaissVectorDB.add_documents, then BM25Search.add_documents
AddDocuments ==
    /\ search_pc = "idle"
    /\ Len(vdb_documents) < MaxDocs
    /\ Len(bm25_documents) < MaxDocs
    /\ \E d \in DocPool :
        /\ d \notin Range(vdb_documents) \cup Range(bm25_documents)
        /\ vdb_documents' = vdb_documents \o VdbAccepted(<<d>>)
        /\ bm25_documents' = bm25_documents \o Bm25Accepted(<<d>>)
    /\ UNCHANGED <<api, search_pc, s_query, s_top_k, leg_state, leg_result,
                   completed, n_collected, vector_results, keyword_results,
                   final_results>>
    /\ ConfigUnchanged
    /\ UNCHANGED nonSearchVars

\* search lines 117-138 with _parallel_search lines 160-166 (both legs are
\* submitted) or the entry of _sequential_search
StartSearch ==
    /\ search_pc = "idle"
    /\ \E q \in SearchQueries : s_query' = q
    /\ \E k \in 0..MaxK : s_top_k' = k
    /\ api' = "hybrid"
    /\ IF use_parallel_search
       THEN /\ search_pc' = "as_completed"
            /\ leg_state' = [l \in Legs |-> "running"]
       ELSE /\ search_pc' = "seq_vector"
            /\ leg_state' = leg_state
    /\ leg_result' = [l \in Legs |-> << >>]
    /\ completed' = << >>
    /\ n_collected' = 0
    /\ vector_results' = << >>
    /\ keyword_results' = << >>
    /\ final_results' = << >>
    /\ IndexesUnchanged
    /\ ConfigUnchanged
    /\ UNCHANGED nonSearchVars

\* a worker thread runs _vector_search to its end
VectorLegFinishes ==
    /\ leg_state["vector"] = "running"
    /\ leg_result' = [leg_result EXCEPT
                        !["vector"] = VectorSearch(vdb_documents, s_query)]
    /\ leg_state' = [leg_state EXCEPT !["vector"] = "finished"]
    /\ completed' = Append(completed, "vector")
    /\ UNCHANGED <<api, search_pc, s_query, s_top_k, n_collected,
                   vector_results, keyword_results, final_results>>
    /\ IndexesUnchanged
    /\ ConfigUnchanged
    /\ UNCHANGED nonSearchVars

\* a worker thread runs _keyword_search to its end
KeywordLegFinishes ==
    /\ leg_state["keyword"] = "running"
    /\ leg_result' = [leg_result EXCEPT
                        !["keyword"] = KeywordSearch(bm25_documents, s_query)]
    /\ leg_state' = [leg_state EXCEPT !["keyword"] = "finished"]
    /\ completed' = Append(completed, "keyword")
    /\ UNCHANGED <<api, search_pc, s_query, s_top_k, n_collected,
                   vector_results, keyword_results, final_results>>
    /\ IndexesUnchanged
    /\ ConfigUnchanged
    /\ UNCHANGED nonSearchVars

\* the first future to finish is taken for the vector leg
CollectByArrival(future, n) == IF n = 0 THEN "vector" ELSE "keyword"

\* lines 171-174: the local a future's result is assigned to, for the n-th
\* future as_completed yields (counted from 0)
CollectSlot(future, n) == future

\* lines 169-176: one turn of the loop over as_completed
CollectFuture ==
    /\ search_pc = "as_completed"
    /\ n_collected < Len(completed)
    /\ LET future == completed[n_collected + 1]
           slot == CollectSlot(future, n_collected)
       IN  /\ vector_results' = IF slot = "vector" THEN leg_result[future]
                                ELSE vector_results
           /\ keyword_results' = IF slot = "keyword" THEN leg_result[future]
                                 ELSE keyword_results
    /\ n_collected' = n_collected + 1
    /\ UNCHANGED <<api, search_pc, s_query, s_top_k, leg_state, leg_result,
                   completed, final_results>>
    /\ IndexesUnchanged
    /\ ConfigUnchanged
    /\ UNCHANGED nonSearchVars

\* line 178: the loop is over, the executor is shut down, the pair returned
ReturnPair ==
    /\ search_pc = "as_completed"
    /\ n_collected = Cardinality(Legs)
    /\ search_pc' = "rerank"
    /\ UNCHANGED <<api, s_query, s_top_k, leg_state, leg_result, completed,
                   n_collected, vector_results, keyword_results,
                   final_results>>
    /\ IndexesUnchanged
    /\ ConfigUnchanged
    /\ UNCHANGED nonSearchVars

\* _sequential_search, line 182
SeqVectorSearch ==
    /\ search_pc = "seq_vector"
    /\ vector_results' = SequentialSearch(vdb_documents, bm25_documents,
                                          s_query)[1]
    /\ search_pc' = "seq_keyword"
    /\ UNCHANGED <<api, s_query, s_top_k, leg_state, leg_result, completed,
                   n_collected, keyword_results, final_results>>
    /\ IndexesUnchanged
    /\ ConfigUnchanged
    /\ UNCHANGED nonSearchVars

\* _sequential_search, lines 183-184
SeqKeywordSearch ==
    /\ search_pc = "seq_keyword"
    /\ keyword_results' = SequentialSearch(vdb_documents, bm25_documents,
                                           s_query)[2]
    /\ search_pc' = "rerank"
    /\ UNCHANGED <<api, s_query, s_top_k, leg_state, leg_result, completed,
                   n_collected, vector_results, final_results>>
    /\ IndexesUnchanged
    /\ ConfigUnchanged
    /\ UNCHANGED nonSearchVars

\* search lines 139-156: re-ranking, final_rank, the list is returned
Rerank ==
    /\ search_pc = "rerank"
    /\ final_results' = WithFinalRank(RerankResults(rerank_method, s_query,
                            vector_results, keyword_results, s_top_k))
    /\ search_pc' = "done"
    /\ UNCHANGED <<api, s_query, s_top_k, leg_state, leg_result, completed,
                   n_collected, vector_results, keyword_results>>
    /\ IndexesUnchanged
    /\ ConfigUnchanged
    /\ UNCHANGED nonSearchVars

\* BM25Search.search(query, top_k) called on its own, lines 188-228
Bm25SearchCall ==
    /\ search_pc = "idle"
    /\ api' = "bm25"
    /\ \E q \in SearchQueries, k \in 0..MaxK :
        /\ s_query' = q
        /\ s_top_k' = k
        /\ keyword_results' = Bm25SearchHits(bm25_documents, q, k)
    /\ search_pc' = "done"
    /\ vector_results' = << >>
    /\ final_results' = << >>
    /\ UNCHANGED <<leg_state, leg_result, completed, n_collected>>
    /\ IndexesUnchanged
    /\ ConfigUnchanged
    /\ UNCHANGED nonSearchVars

\* the caller has the list; the engine is ready for the next call
FinishSearch ==
    /\ search_pc = "done"
    /\ search_pc' = "idle"
    /\ api' = "none"
    /\ s_query' = << >>
    /\ s_top_k' = 0
    /\ leg_state' = [l \in Legs |-> "idle"]
    /\ leg_result' = [l \in Legs |-> << >>]
    /\ completed' = << >>
    /\ n_collected' = 0
    /\ vector_results' = << >>
    /\ keyword_results' = << >>
    /\ final_results' = << >>
    /\ IndexesUnchanged
    /\ ConfigUnchanged
    /\ UNCHANGED nonSearchVars

SearchNext ==
    \/ AddDocuments
    \/ StartSearch
    \/ VectorLegFinishes
    \/ KeywordLegFinishes
    \/ CollectFuture
    \/ ReturnPair
    \/ SeqVectorSearch
    \/ SeqKeywordSearch
    \/ Rerank
    \/ Bm25SearchCall
    \/ FinishSearch

(***************************************************************************)
(* Part 3b: a search leg that raises (hybrid_search_engine.py 186-208 and   *)
(* 169-176), on an engine that holds MaxDocs documents.                    *)
(***************************************************************************)
\* the documents of DocPool in a fixed order
DocOrder == <<Doc1, Doc2, Doc3, Doc4, Doc5>>

\* the batches of MaxDocs documents handed to add_documents
FaultCorpora ==
    {List([i \in 1..MaxDocs |-> DocOrder[f[i]]]) :
        f \in {g \in [1..MaxDocs -> 1..Len(DocOrder)] :
                 \A i \in 1..MaxDocs, j \in 1..MaxDocs : i < j => g[i] < g[j]}}

\* the engine after add_documents of one batch, any configuration
FaultInit ==
    /\ \E batch \in FaultCorpora :
         /\ vdb_documents = VdbAccepted(batch)
         /\ bm25_documents = Bm25Accepted(batch)
    /\ use_parallel_search \in BOOLEAN
    /\ rerank_method \in RerankMethods
    /\ api = "none"
    /\ search_pc = "idle"
    /\ s_query = << >>
    /\ s_top_k = 0
    /\ leg_state = [l \in Legs |-> "idle"]
    /\ leg_result = [l \in Legs |-> << >>]
    /\ completed = << >>
    /\ n_collected = 0
    /\ vector_results = << >>
    /\ keyword_results = << >>
    /\ final_results = << >>

\* only the except of the loop over as_completed (line 175) is there
CaughtInLoopOnly(mode) == mode = "parallel"

\* an exception of vector_db.search / bm25_search.search is caught inside
\* _vector_search / _keyword_search (lines 194-196, 206-208), whichever way
\* the leg is run
CaughtInLeg(mode) == TRUE

\* a worker thread runs _vector_search and vector_db.search raises: the
\* leg returns [] (caught in the leg) or the future holds the exception and
\* line 175 leaves vector_results as it is
VectorLegRaises ==
    /\ leg_state["vector"] = "running"
    /\ leg_result' = [leg_result EXCEPT !["vector"] = << >>]
    /\ leg_state' = [leg_state EXCEPT !["vector"] = "raised"]
    /\ completed' = Append(completed, "vector")
    /\ UNCHANGED <<api, search_pc, s_query, s_top_k, n_collected,
                   vector_results, keyword_results, final_results>>
    /\ IndexesUnchanged
    /\ ConfigUnchanged
    /\ UNCHANGED nonSearchVars

\* a worker thread runs _keyword_search and bm25_search.search raises
KeywordLegRaises ==
    /\ leg_state["keyword"] = "running"
    /\ leg_result' = [leg_result EXCEPT !["keyword"] = << >>]
    /\ leg_state' = [leg_state EXCEPT !["keyword"] = "raised"]
    /\ completed' = Append(completed, "keyword")
    /\ UNCHANGED <<api, search_pc, s_query, s_top_k, n_collected,
                   vector_results, keyword_results, final_results>>
    /\ IndexesUnchanged
    /\ ConfigUnchanged
    /\ UNCHANGED nonSearchVars

\* _sequential_search, line 182, when vector_db.search raises
SeqVectorRaises ==
    /\ search_pc = "seq_vector"
    /\ vector_results' = << >>
    /\ leg_state' = [leg_state EXCEPT !["vector"] = "raised"]
    /\ search_pc' = IF CaughtInLeg("sequential") THEN "seq_keyword"
                    ELSE "raised"
    /\ UNCHANGED <<api, s_query, s_top_k, leg_result, completed,
                   n_collected, keyword_results, final_results>>
    /\ IndexesUnchanged
    /\ ConfigUnchanged
    /\ UNCHANGED nonSearchVars

\* _sequential_search, line 183, when bm25_search.search raises
SeqKeywordRaises ==
    /\ search_pc = "seq_keyword"
    /\ keyword_results' = << >>
    /\ leg_state' = [leg_state EXCEPT !["keyword"] = "raised"]
    /\ search_pc' = IF CaughtInLeg("sequential") THEN "rerank" ELSE "raised"
    /\ UNCHANGED <<api, s_query, s_top_k, leg_result, completed,
                   n_collected, vector_results, final_results>>
    /\ IndexesUnchanged
    /\ ConfigUnchanged
    /\ UNCHANGED nonSearchVars

FaultNext ==
    \/ StartSearch
    \/ VectorLegFinishes
    \/ KeywordLegFinishes
    \/ VectorLegRaises
    \/ KeywordLegRaises
    \/ CollectFuture
    \/ ReturnPair
    \/ SeqVectorSearch
    \/ SeqKeywordSearch
    \/ SeqVectorRaises
    \/ SeqKeywordRaises
    \/ Rerank
    \/ FinishSearch

(***************************************************************************)
(* Part 4: the two index objects with add_documents, save_index and        *)
(* load_index, and the three files they are saved to                       *)
(* (faiss_vector_db.py 140-311, bm25_search.py 149-289,                    *)
(* hybrid_search_engine.py 90-115 and 384-398).                            *)
(***************************************************************************)
\* the documents handed to add_documents, one per call, in this order
StoreDocs == <<Doc1, Doc4, Doc2, Doc3>>

\* f'doc_{i}', the id given to a document that has none
DocNum(i) ==
    CASE i = 0 -> "doc_0"
      [] i = 1 -> "doc_1"
      [] i = 2 -> "doc_2"
      [] i = 3 -> "doc_3"
      [] OTHER -> "doc_n"

\* FaissVectorDB.__init__: index None, no documents
NoIndex == [built |-> FALSE, vectors |-> << >>]
\* BM25Search.__init__, lines 83-86
NoBm25 == [fitted |-> FALSE, corpus |-> << >>]

\* a file that is not there, with the fields of each kind of file
NoIndexFile == [state |-> "absent", index |-> NoIndex]
NoMetaFile == [state |-> "absent", documents |-> << >>, doc_ids |-> << >>]
NoBm25File == [state |-> "absent", bm25 |-> NoBm25, documents |-> << >>,
               tokenized_docs |-> << >>, doc_ids |-> << >>]

\* how a write can end: done; failed before the file was opened; failed
\* after open(path, 'wb') had truncated it
WriteOutcomes == {"ok", "fail_untouched", "fail_truncated"}

\* the file after a write of content new with outcome o
Written(old, new, o) ==
    CASE o = "ok" -> new
      [] o = "fail_truncated" -> [old EXCEPT !.state = "corrupt"]
      [] OTHER -> old

\* read_index / pickle.load raise on a file that is missing or damaged
Readable(file) == file.state = "ok"

NoOp == [name |-> "none", raised |-> FALSE, embed_failed |-> FALSE,
         embed_calls |-> 0, doc |-> 0, fresh |-> FALSE, report |-> "none"]

NoSaved == [f_index |-> NoIndex, f_documents |-> << >>, f_doc_ids |-> << >>,
            b_bm25 |-> NoBm25, b_documents |-> << >>,
            b_tokenized_docs |-> << >>, b_doc_ids |-> << >>,
            complete |-> FALSE]

StoreInit ==
    /\ f_index = NoIndex
    /\ f_documents = << >>
    /\ f_doc_ids = << >>
    /\ b_bm25 = NoBm25
    /\ b_documents = << >>
    /\ b_tokenized_docs = << >>
    /\ b_doc_ids = << >>
    /\ disk = [faiss_index |-> NoIndexFile, faiss_metadata |-> NoMetaFile,
               bm25_index |-> NoBm25File]
    /\ st_next = 0
    /\ st_op = NoOp
    /\ st_calls = 0
    /\ st_saved = NoSaved

\* the store part at rest
StoreQuiet == StoreInit

\* create_embedding, lines 94-117: the embedding, or zeros when the model
\* or the API raised (line 115-117)
CreateEmbedding(d, fails) == IF fails THEN <<0, 0>> ELSE d.emb

\* the id add_documents stores for the document at position pos of a batch
\* of FaissVectorDB (line 207) counted from 0
FaissDocId(d, pos) == IF d.id # NoId THEN d.id ELSE DocNum(pos)

\* BM25Search.add_documents, line 184: the corpus BM25Okapi is fitted on
FitBatchOnly(tokenized_docs, batch_tokens) == batch_tokens

FitCorpus(tokenized_docs, batch_tokens) == tokenized_docs

\* HybridSearchEngine.add_documents, lines 90-115, with the next document:
\* FaissVectorDB.add_documents (140-211), then BM25Search.add_documents
\* (149-186).  The index is created at line 154 for any batch.  The embedder
\* is called once (line 181) and may fail for the document; index.train
\* or index.add may raise, which leaves add_documents before line 205 and
\* HybridSearchEngine.add_documents before line 112.
StoreAddDocuments ==
    /\ st_next < Len(StoreDocs)
    /\ \E embed_fails \in BOOLEAN, add_raises \in BOOLEAN :
         LET d == StoreDocs[st_next + 1]
             embedding == CreateEmbedding(d, embed_fails)
             valid == d.content # << >> /\ AnyNonZero(embedding)
             raised == valid /\ add_raises
             tokens == PreprocessText(FullText(d))
             accepted == d.content # << >> /\ tokens # << >>
         IN  /\ f_index' = IF valid /\ ~raised
                           THEN [built |-> TRUE,
                                 vectors |-> Append(f_index.vectors, embedding)]
                           ELSE [f_index EXCEPT !.built = TRUE]
             /\ f_documents' = IF valid /\ ~raised
                               THEN Append(f_documents, d) ELSE f_documents
             /\ f_doc_ids' = IF valid /\ ~raised
                             THEN Append(f_doc_ids, FaissDocId(d, 0))
                             ELSE f_doc_ids
             /\ b_documents' = IF accepted /\ ~raised
                               THEN Append(b_documents, d) ELSE b_documents
             /\ b_tokenized_docs' = IF accepted /\ ~raised
                                    THEN Append(b_tokenized_docs, tokens)
                                    ELSE b_tokenized_docs
             /\ b_doc_ids' = IF accepted /\ ~raised
                             THEN Append(b_doc_ids,
                                         IF d.id # NoId THEN d.id
                                         ELSE DocNum(Len(b_documents) + 1))
                             ELSE b_doc_ids
             /\ b_bm25' = IF ~raised /\ b_tokenized_docs' # << >>
                          THEN [fitted |-> TRUE,
                                corpus |-> FitCorpus(b_tokenized_docs',
                                              IF accepted THEN <<tokens>>
                                              ELSE << >>)]
                          ELSE b_bm25
             /\ st_op' = [name |-> "add", raised |-> raised,
                          embed_failed |-> embed_fails,
                          embed_calls |-> IF d.content # << >> THEN 1 ELSE 0,
                          doc |-> st_next + 1, fresh |-> FALSE,
                          report |-> "none"]
    /\ st_next' = st_next + 1
    /\ UNCHANGED <<disk, st_calls, st_saved>>
    /\ UNCHANGED nonStoreVars

\* HybridSearchEngine.save_indexes, lines 384-390: FaissVectorDB.save_index
\* (259-286) then BM25Search.save_index (242-265).  Each file is written in
\* place; every exception is caught and logged (285-286, 264-265), and a
\* failed faiss.write_index skips the metadata (the try is left at 268).
\* faiss.write_index raises on an index of None before it opens the file.
StoreSaveIndexes ==
    /\ st_calls < MaxStoreCalls
    /\ st_calls' = st_calls + 1
    /\ \E oi \in WriteOutcomes, om \in WriteOutcomes, ob \in WriteOutcomes :
         /\ ~f_index.built => oi = "fail_untouched"
         /\ oi # "ok" => om = "fail_untouched"
         /\ disk' =
              [faiss_index |->
                   Written(disk.faiss_index,
                           [state |-> "ok", index |-> f_index], oi),
               faiss_metadata |->
                   Written(disk.faiss_metadata,
                           [state |-> "ok", documents |-> f_documents,
                            doc_ids |-> f_doc_ids], om),
               bm25_index |->
                   Written(disk.bm25_index,
                           [state |-> "ok", bm25 |-> b_bm25,
                            documents |-> b_documents,
                            tokenized_docs |-> b_tokenized_docs,
                            doc_ids |-> b_doc_ids], ob)]
         /\ st_saved' =
              IF oi = "ok" /\ om = "ok" /\ ob = "ok"
              THEN [f_index |-> f_index, f_documents |-> f_documents,
                    f_doc_ids |-> f_doc_ids, b_bm25 |-> b_bm25,
                    b_documents |-> b_documents,
                    b_tokenized_docs |-> b_tokenized_docs,
                    b_doc_ids |-> b_doc_ids, complete |-> TRUE]
              ELSE [st_saved EXCEPT !.complete = FALSE]
         /\ st_op' = [NoOp EXCEPT !.name = "save"]
    /\ UNCHANGED <<f_index, f_documents, f_doc_ids, b_bm25, b_documents,
                   b_tokenized_docs, b_doc_ids, st_next>>
    /\ UNCHANGED nonStoreVars

\* the three files of the snapshot
BlobNames == {"faiss_index", "faiss_metadata", "bm25_index"}

\* a file of the snapshot is damaged on disk between a save and a load
CorruptBlob ==
    /\ st_calls < MaxStoreCalls
    /\ st_calls' = st_calls + 1
    /\ \E name \in BlobNames :
         /\ disk[name].state = "ok"
         /\ disk' = [disk EXCEPT ![name].state = "corrupt"]
    /\ st_saved' = [st_saved EXCEPT !.complete = FALSE]
    /\ UNCHANGED <<f_index, f_documents, f_doc_ids, b_bm25, b_documents,
                   b_tokenized_docs, b_doc_ids, st_next, st_op>>
    /\ UNCHANGED nonStoreVars

\* HybridSearchEngine(...) constructed anew (api_retriever.py 83-90):
\* FaissVectorDB.__init__ and BM25Search.__init__ with the same arguments
StoreNewInstance ==
    /\ st_op.name # "new"
    /\ st_calls < MaxStoreCalls
    /\ st_calls' = st_calls + 1
    /\ f_index' = NoIndex
    /\ f_documents' = << >>
    /\ f_doc_ids' = << >>
    /\ b_bm25' = NoBm25
    /\ b_documents' = << >>
    /\ b_tokenized_docs' = << >>
    /\ b_doc_ids' = << >>
    /\ st_op' = [NoOp EXCEPT !.name = "new", !.fresh = TRUE]
    /\ UNCHANGED <<disk, st_next, st_saved>>
    /\ UNCHANGED nonStoreVars

\* BM25Search.load_index without the assignment of line 273
LoadedBm25Skipped(file, old) == old

\* BM25Search.load_index, line 273: self.bm25 = index_data['bm25']
LoadedBm25(file, old) == file.bm25

\* HybridSearchEngine.load_indexes, lines 392-398, as called at
\* api_retriever.py 94-102: FaissVectorDB.load_index (288-311) assigns the
\* index at 292 before the metadata is read at 299-300; BM25Search.load_index
\* (267-289) reads the whole file first.  Every exception is caught and
\* logged inside the two load_index (310-311, 288-289), so load_indexes
\* returns, and api_retriever.py 101-102 reports the load and returns.
StoreLoadIndexes ==
    /\ st_op.name # "load"
    /\ st_calls < MaxStoreCalls
    /\ st_calls' = st_calls + 1
    /\ LET index_read == Readable(disk.faiss_index)
           meta_read == index_read /\ Readable(disk.faiss_metadata)
           bm25_read == Readable(disk.bm25_index)
           raised == FALSE
       IN  /\ f_index' = IF index_read THEN disk.faiss_index.index
                         ELSE f_index
           /\ f_documents' = IF meta_read THEN disk.faiss_metadata.documents
                             ELSE f_documents
           /\ f_doc_ids' = IF meta_read THEN disk.faiss_metadata.doc_ids
                           ELSE f_doc_ids
           /\ b_bm25' = IF bm25_read THEN LoadedBm25(disk.bm25_index, b_bm25)
                        ELSE b_bm25
           /\ b_documents' = IF bm25_read THEN disk.bm25_index.documents
                             ELSE b_documents
           /\ b_tokenized_docs' = IF bm25_read
                                  THEN disk.bm25_index.tokenized_docs
                                  ELSE b_tokenized_docs
           /\ b_doc_ids' = IF bm25_read THEN disk.bm25_index.doc_ids
                           ELSE b_doc_ids
           /\ st_op' = [NoOp EXCEPT !.name = "load", !.raised = raised,
                                    !.fresh = (st_op.name = "new"),
                                    !.report = IF raised THEN "rebuild"
                                               ELSE "loaded"]
    /\ UNCHANGED <<disk, st_next, st_saved>>
    /\ UNCHANGED nonStoreVars

\* FaissVectorDB.search, lines 213-257, on the index and the documents the
\* object holds: index.search ranks the vectors of the index (line 241),
\* the hit is read from self.documents (line 249), which raises IndexError
\* when the index has a vector the list has no document for
StoreVdbSearch(index, documents, query, top_k) ==
    IF ~index.built \/ documents = << >>
    THEN [raised |-> FALSE, hits |-> << >>]
    ELSE LET query_embedding == QueryEmbedding(query)
         IN  IF ~AnyNonZero(query_embedding)
             THEN [raised |-> FALSE, hits |-> << >>]
             ELSE LET scores == List([i \in 1..Len(index.vectors) |->
                                InnerProduct(query_embedding,
                                             index.vectors[i])])
                      order == FaissOrder(scores)
                      indices == SubSeq(order, 1,
                                        Min(Min(top_k, Len(documents)),
                                            Len(order)))
                      raised == \E i \in 1..Len(indices) :
                                    indices[i] > Len(documents)
                  IN  [raised |-> raised,
                       hits |-> IF raised THEN << >>
                                ELSE List([i \in 1..Len(indices) |->
                                       [doc |-> documents[indices[i]],
                                        similarity_score |->
                                            scores[indices[i]],
                                        rank |-> i]])]

\* BM25Search.search, lines 188-230, on the fitted model and the documents
\* the object holds: the scores come from self.bm25 (line 212), the hit
\* from self.documents (line 222)
StoreBm25Search(bm25, documents, query, top_k) ==
    IF ~bm25.fitted \/ documents = << >>
    THEN [raised |-> FALSE, hits |-> << >>]
    ELSE LET query_tokens == PreprocessText(query)
         IN  IF query_tokens = << >>
             THEN [raised |-> FALSE, hits |-> << >>]
             ELSE LET scores == Bm25Scores(query_tokens, bm25.corpus)
                      order == ArgsortReversed(scores)
                      top_indices == SubSeq(order, 1,
                                            Min(Min(top_k, Len(documents)),
                                                Len(order)))
                      kept == SelectSeq(top_indices,
                                  LAMBDA idx : ~SkipScore(scores[idx]))
                      raised == \E i \in 1..Len(kept) :
                                    kept[i] > Len(documents)
                      rank(idx) == CHOOSE i \in 1..Len(top_indices) :
                                       top_indices[i] = idx
                  IN  [raised |-> raised,
                       hits |-> IF raised THEN << >>
                                ELSE List([i \in 1..Len(kept) |->
                                       [doc |-> documents[kept[i]],
                                        bm25_score |-> scores[kept[i]],
                                        rank |-> rank(kept[i])]])]

StoreNext ==
    \/ StoreAddDocuments
    \/ StoreSaveIndexes
    \/ CorruptBlob
    \/ StoreNewInstance
    \/ StoreLoadIndexes

\* @@PART4@@
(***************************************************************************)
(* Part 5: _build_hybrid_indexes writing the snapshot, file by file         *)
(* (api_retriever.py 181-230 inside _init_hybrid_search 73-113;            *)
(* hybrid_search_engine.py 384-390; faiss_vector_db.py 259-286;            *)
(* bm25_search.py 242-265).                                                *)
(***************************************************************************)
\* the files in the order the code writes them: save_indexes writes the
\* first three (lines 207-211), line 221 the manifest
WriteOrder == <<"faiss_index.bin", "faiss_metadata.pkl", "bm25_index.pkl",
                "cache_info.json">>

\* the exception of a failed write leaves _build_hybrid_indexes only for
\* the manifest
ManifestFailurePropagates(file) == file = "cache_info.json"

\* a failed write of file is raised out of _build_hybrid_indexes: never,
\* save_index catches its own (faiss_vector_db.py 285, bm25_search.py 264)
\* and line 227 catches the rest
WriteFailurePropagates(file) == FALSE

\* where the code goes on after the write of file number i failed: a failed
\* faiss.write_index leaves the try of FaissVectorDB.save_index, so the
\* metadata is skipped; the manifest is the last
AfterFailure(i) == IF i = 1 THEN 3 ELSE i + 1

BuildInit ==
    /\ bd_pc = "built"
    /\ bd_files \in [Range(WriteOrder) -> {"absent", "old"}]
    /\ bd_cur = 1
    /\ bd_open = FALSE
    /\ bd_failed = {}
    /\ bd_has_documents \in BOOLEAN
    /\ bd_use_hybrid = TRUE
    /\ bd_engine = IF bd_has_documents THEN "indexed" ELSE "empty"

\* the build part at rest
BuildQuiet ==
    /\ bd_pc = "built"
    /\ bd_files = [f \in Range(WriteOrder) |-> "absent"]
    /\ bd_cur = 1
    /\ bd_open = FALSE
    /\ bd_failed = {}
    /\ bd_has_documents = FALSE
    /\ bd_use_hybrid = TRUE
    /\ bd_engine = "empty"

\* lines 191-203: with documents, add_documents has run and
\* index_dir.mkdir(exist_ok=True) is called, outside the try of line 205;
\* without documents nothing is saved (line 229-230)
Mkdir ==
    /\ bd_pc = "built"
    /\ \E ok \in BOOLEAN :
         bd_pc' = IF ~bd_has_documents THEN "returned"
                  ELSE IF ok THEN "saving" ELSE "raised"
    /\ UNCHANGED <<bd_files, bd_cur, bd_open, bd_failed, bd_has_documents,
                   bd_use_hybrid, bd_engine>>
    /\ UNCHANGED nonBuildVars

\* what follows the failed write of file number bd_cur
FailWrite ==
    /\ bd_failed' = bd_failed \cup {WriteOrder[bd_cur]}
    /\ bd_open' = FALSE
    /\ IF WriteFailurePropagates(WriteOrder[bd_cur])
       THEN bd_pc' = "raised" /\ bd_cur' = bd_cur
       ELSE IF AfterFailure(bd_cur) > Len(WriteOrder)
       THEN bd_pc' = "returned" /\ bd_cur' = bd_cur
       ELSE bd_pc' = "saving" /\ bd_cur' = AfterFailure(bd_cur)

\* open(path, 'wb') / faiss.write_index opening its file: the file is
\* truncated in place
OpenFile ==
    /\ bd_pc = "saving"
    /\ ~bd_open
    /\ bd_open' = TRUE
    /\ bd_files' = [bd_files EXCEPT ![WriteOrder[bd_cur]] = "partial"]
    /\ UNCHANGED <<bd_pc, bd_cur, bd_failed, bd_has_documents, bd_use_hybrid,
                   bd_engine>>
    /\ UNCHANGED nonBuildVars

\* the file cannot be opened for writing: it is left as it was
OpenFails ==
    /\ bd_pc = "saving"
    /\ ~bd_open
    /\ FailWrite
    /\ UNCHANGED <<bd_files, bd_has_documents, bd_use_hybrid, bd_engine>>
    /\ UNCHANGED nonBuildVars

\* pickle.dump / json.dump / write_index completes and the file is closed
FinishWrite ==
    /\ bd_pc = "saving"
    /\ bd_open
    /\ bd_open' = FALSE
    /\ bd_files' = [bd_files EXCEPT ![WriteOrder[bd_cur]] = "new"]
    /\ IF bd_cur = Len(WriteOrder)
       THEN bd_pc' = "returned" /\ bd_cur' = bd_cur
       ELSE bd_pc' = bd_pc /\ bd_cur' = bd_cur + 1
    /\ UNCHANGED <<bd_failed, bd_has_documents, bd_use_hybrid, bd_engine>>
    /\ UNCHANGED nonBuildVars

\* the dump raises after the file was opened (disk full, an object that
\* cannot be pickled): the file keeps what was written so far
WriteFails ==
    /\ bd_pc = "saving"
    /\ bd_open
    /\ FailWrite
    /\ UNCHANGED <<bd_files, bd_has_documents, bd_use_hybrid, bd_engine>>
    /\ UNCHANGED nonBuildVars

\* _build_hybrid_indexes returned: _init_hybrid_search ends at line 108
InitCompletes ==
    /\ bd_pc = "returned"
    /\ bd_pc' = "ready"
    /\ UNCHANGED <<bd_files, bd_cur, bd_open, bd_failed, bd_has_documents,
                   bd_use_hybrid, bd_engine>>
    /\ UNCHANGED nonBuildVars

\* _build_hybrid_indexes raised: lines 110-113 turn hybrid search off and
\* initialise the original retriever
InitFallsBack ==
    /\ bd_pc = "raised"
    /\ bd_pc' = "ready"
    /\ bd_use_hybrid' = FALSE
    /\ UNCHANGED <<bd_files, bd_cur, bd_open, bd_failed, bd_has_documents,
                   bd_engine>>
    /\ UNCHANGED nonBuildVars

\* the process stops while the snapshot is being saved
Crash ==
    /\ bd_pc = "saving"
    /\ bd_pc' = "stopped"
    /\ UNCHANGED <<bd_files, bd_cur, bd_open, bd_failed, bd_has_documents,
                   bd_use_hybrid, bd_engine>>
    /\ UNCHANGED nonBuildVars

BuildNext ==
    \/ Mkdir
    \/ OpenFile
    \/ OpenFails
    \/ FinishWrite
    \/ WriteFails
    \/ InitCompletes
    \/ InitFallsBack
    \/ Crash

(***************************************************************************)
(* Part 6: _load_all_documents and _is_valid_document                      *)
(* (api_retriever.py 232-292).                                             *)
(***************************************************************************)
\* the files of the data folder in the order glob yields them
LoaderFiles == <<"a.json", ".hidden.json", "b.json">>

\* json_file.stem
Stem_(f) ==
    CASE f = "a.json" -> "a"
      [] f = "b.json" -> "b"
      [] OTHER -> ".hidden"

\* the records the files are made of: is_dict is false for an item that is
\* not a JSON object; a 'content' or 'title' entry is "absent" (no such
\* key), "blank" (a string of blanks), "text" or "null" (JSON null);
\* data_source is "" until the loader stamps it; id is the record's 'id'
\* entry, "absent" when it has none
Rec(is_dict, content, title, tag, id) ==
    [is_dict |-> is_dict, content |-> content, title |-> title, tag |-> tag,
     data_source |-> "", id |-> id]

RecordPool ==
    {Rec(TRUE, "text", "text", "r1", "absent"),
     Rec(TRUE, "absent", "text", "r2", "pmid2"),
     Rec(TRUE, "text", "absent", "r3", "absent"),
     Rec(TRUE, "blank", "absent", "r4", "pmid4"),
     Rec(TRUE, "null", "text", "r5", "absent"),
     Rec(FALSE, "absent", "absent", "r6", "absent")}

\* the longest list of records in one file
MaxRecords == 2

RecordLists == UNION {[1..n -> RecordPool] : n \in 0..MaxRecords}

\* the contents of a file: text json.load rejects, a scalar, a list of
\* items, an object with 'papers', an object with 'documents' and no
\* 'papers', or another object (the record itself)
FileContents ==
    {[parses |-> FALSE, shape |-> "none", items |-> << >>],
     [parses |-> TRUE, shape |-> "scalar", items |-> << >>]}
    \cup {[parses |-> TRUE, shape |-> sh, items |-> items] :
            sh \in {"list", "papers", "documents"}, items \in RecordLists}
    \cup {[parses |-> TRUE, shape |-> "single", items |-> <<r>>] :
            r \in {x \in RecordPool : x.is_dict}}

\* str.strip() of a field applied to doc.get(key, ''), lines 289-290:
\* "raises" for a value without strip()
HasField(kind) ==
    CASE kind = "text" -> "true"
      [] kind = "null" -> "raises"
      [] OTHER -> "false"

\* _is_valid_document, lines 283-292: both fields are evaluated before the
\* or of line 292
IsValidDocument(doc) ==
    IF ~doc.is_dict THEN "false"
    ELSE LET has_content == HasField(doc.content)
             has_title == HasField(doc.title)
         IN  IF has_content = "raises" \/ has_title = "raises" THEN "raises"
             ELSE IF has_content = "true" \/ has_title = "true" THEN "true"
             ELSE "false"

\* lines 253-256 (258-268 alike) for the items of one file: the valid items
\* stamped with the stem
StampValid(items, stem) ==
    LET kept == SelectSeq(items, LAMBDA r : IsValidDocument(r) = "true")
    IN  List([i \in 1..Len(kept) |-> [kept[i] EXCEPT !.data_source = stem]])

\* some item makes _is_valid_document raise, which leaves the try of
\* line 243 for the except of line 277
ItemRaises(items) ==
    \E i \in 1..Len(items) : IsValidDocument(items[i]) = "raises"

\* what the file read last holds in the inputs of the model
LastFileContents ==
    {[parses |-> FALSE, shape |-> "none", items |-> << >>],
     [parses |-> TRUE, shape |-> "list",
      items |-> <<Rec(TRUE, "text", "text", "r1", "absent")>>],
     [parses |-> TRUE, shape |-> "documents",
      items |-> <<Rec(TRUE, "text", "absent", "r3", "absent"),
                  Rec(TRUE, "blank", "absent", "r4", "pmid4")>>],
     [parses |-> TRUE, shape |-> "single",
      items |-> <<Rec(TRUE, "absent", "text", "r2", "pmid2")>>]}

LoaderInit ==
    /\ \E a \in FileContents, b \in LastFileContents :
         ld_files = [f \in Range(LoaderFiles) |->
                        CASE f = "a.json" -> a
                          [] f = "b.json" -> b
                          [] OTHER ->
                               [parses |-> TRUE, shape |-> "list",
                                items |-> <<Rec(TRUE, "text", "text",
                                                "r1", "absent")>>]]
    /\ ld_next = 1
    /\ ld_documents = << >>
    /\ ld_errors = {}

\* the loader part at rest
LoaderQuiet ==
    /\ ld_files = [f \in Range(LoaderFiles) |->
                      [parses |-> FALSE, shape |-> "none", items |-> << >>]]
    /\ ld_next = 1
    /\ ld_documents = << >>
    /\ ld_errors = {}

\* the file of this pass of the loop of lines 242-278 makes the try
\* raise: json.load rejects it (line 247) or _is_valid_document raises on
\* one of its items
FileRaises(file_data) ==
    \/ ~file_data.parses
    \/ file_data.shape # "scalar" /\ ItemRaises(file_data.items)

\* one pass of the loop of lines 242-278 that reaches line 271 (a file
\* whose name starts with a dot was filtered out at line 238)
LoadFile ==
    /\ ld_next <= Len(LoaderFiles)
    /\ LET json_file == LoaderFiles[ld_next]
           file_data == ld_files[json_file]
           file_docs == IF file_data.shape = "scalar" THEN << >>
                        ELSE StampValid(file_data.items, Stem_(json_file))
       IN  /\ StartsWithDot(json_file) \/ ~FileRaises(file_data)
           /\ ld_documents' = IF StartsWithDot(json_file) THEN ld_documents
                              ELSE ld_documents \o file_docs
    /\ ld_next' = ld_next + 1
    /\ UNCHANGED <<ld_files, ld_errors>>
    /\ UNCHANGED nonLoaderVars

\* one pass of the loop that ends in the except of lines 277-278: the
\* file adds nothing, the loop goes on
LoadFileFails ==
    /\ ld_next <= Len(LoaderFiles)
    /\ LET json_file == LoaderFiles[ld_next]
       IN  /\ ~StartsWithDot(json_file)
           /\ FileRaises(ld_files[json_file])
           /\ ld_errors' = ld_errors \cup {json_file}
    /\ ld_next' = ld_next + 1
    /\ UNCHANGED <<ld_files, ld_documents>>
    /\ UNCHANGED nonLoaderVars

LoaderNext ==
    \/ LoadFile
    \/ LoadFileFails

(***************************************************************************)
(* Part 7: _adaptive_rerank run by several threads on one engine            *)
(* (hybrid_search_engine.py 328-369, with the reads of 299-300).           *)
(***************************************************************************)
\* the threads that call search with the adaptive method
Threads == {"t1", "t2"}

\* the queries of the threads, as query.split()
AdaptiveQueries ==
    {<<"batuk">>,
     <<"gejala", "flu">>,
     <<"apa", "Gejala", "demam", "dan", "batuk">>,
     <<"apa", "gejalanya", "demam", "dan", "batuk">>,
     <<"apa", "obat", "demam", "dan", "batuk">>,
     <<"apa", "obat", "\"demam\"", "dan", "batuk">>,
     <<"apa", "gejalanya", "demam", "dan", "\"batuk\"">>}

\* the threads that are inside _adaptive_rerank
InCall == {t \in Threads : a_pc[t] # "idle"}

\* HybridSearchEngine.__init__, lines 57-58, as api_retriever.py 83-85
\* configures it
AdaptiveInit ==
    /\ a_vector_weight = vector_weight
    /\ a_keyword_weight = keyword_weight
    /\ a_pc = [t \in Threads |-> "idle"]
    /\ a_query = [t \in Threads |-> << >>]
    /\ a_adaptive = [t \in Threads |-> <<0, 0>>]
    /\ a_original = [t \in Threads |-> <<0, 0>>]
    /\ a_used = [t \in Threads |-> <<0, 0>>]
    /\ a_entry = [t \in Threads |-> <<0, 0>>]
    /\ a_overlap = [t \in Threads |-> FALSE]
    /\ a_calls = 0

\* the adaptive part at rest
AdaptiveQuiet == AdaptiveInit

\* lines 331-352: a thread enters _adaptive_rerank with its query and
\* chooses the weights
ChooseWeights(t) ==
    /\ a_pc[t] = "idle"
    /\ a_calls < MaxAdaptiveCalls
    /\ a_calls' = a_calls + 1
    /\ \E q \in AdaptiveQueries :
         /\ a_query' = [a_query EXCEPT ![t] = q]
         /\ a_adaptive' = [a_adaptive EXCEPT
                             ![t] = AdaptiveWeights(q, a_vector_weight,
                                                    a_keyword_weight)]
    /\ a_pc' = [a_pc EXCEPT ![t] = "chosen"]
    /\ a_entry' = [a_entry EXCEPT ![t] = <<a_vector_weight, a_keyword_weight>>]
    /\ a_overlap' = [u \in Threads |->
                        IF u = t THEN InCall # {}
                        ELSE a_overlap[u] \/ u \in InCall]
    /\ a_original' = [a_original EXCEPT ![t] = <<0, 0>>]
    /\ a_used' = [a_used EXCEPT ![t] = <<0, 0>>]
    /\ UNCHANGED <<a_vector_weight, a_keyword_weight>>
    /\ UNCHANGED nonAdaptiveVars

\* line 354: original_weights = (self.vector_weight, self.keyword_weight);
\* the query is not read again by the method
SaveWeights(t) ==
    /\ a_pc[t] = "chosen"
    /\ a_original' = [a_original EXCEPT
                        ![t] = <<a_vector_weight, a_keyword_weight>>]
    /\ a_pc' = [a_pc EXCEPT ![t] = "saved"]
    /\ a_query' = [a_query EXCEPT ![t] = << >>]
    /\ UNCHANGED <<a_vector_weight, a_keyword_weight, a_adaptive,
                   a_used, a_entry, a_overlap, a_calls>>
    /\ UNCHANGED nonAdaptiveVars

\* line 355: self.vector_weight = adaptive_vector_weight
SetVectorWeight(t) ==
    /\ a_pc[t] = "saved"
    /\ a_vector_weight' = a_adaptive[t][1]
    /\ a_pc' = [a_pc EXCEPT ![t] = "vector_set"]
    /\ UNCHANGED <<a_keyword_weight, a_query, a_adaptive, a_original, a_used,
                   a_entry, a_overlap, a_calls>>
    /\ UNCHANGED nonAdaptiveVars

\* line 356: self.keyword_weight = adaptive_keyword_weight
SetKeywordWeight(t) ==
    /\ a_pc[t] = "vector_set"
    /\ a_keyword_weight' = a_adaptive[t][2]
    /\ a_pc' = [a_pc EXCEPT ![t] = "overwritten"]
    /\ UNCHANGED <<a_vector_weight, a_query, a_adaptive, a_original, a_used,
                   a_entry, a_overlap, a_calls>>
    /\ UNCHANGED nonAdaptiveVars

\* line 358, _weighted_sum_rerank: lines 299-300 read self.vector_weight
\* and self.keyword_weight
ScoreWithWeights(t) ==
    /\ a_pc[t] = "overwritten"
    /\ a_used' = [a_used EXCEPT ![t] = <<a_vector_weight, a_keyword_weight>>]
    /\ a_pc' = [a_pc EXCEPT ![t] = "scored"]
    /\ UNCHANGED <<a_vector_weight, a_keyword_weight, a_query, a_adaptive,
                   a_original, a_entry, a_overlap, a_calls>>
    /\ UNCHANGED nonAdaptiveVars

\* the weights are left as the thread set them
KeepWeights(original, current) == current

\* line 361: self.vector_weight, self.keyword_weight = original_weights
RestoredWeights(original, current) == original

\* line 361
RestoreWeights(t) ==
    /\ a_pc[t] = "scored"
    /\ LET w == RestoredWeights(a_original[t],
                                <<a_vector_weight, a_keyword_weight>>)
       IN  /\ a_vector_weight' = w[1]
           /\ a_keyword_weight' = w[2]
    /\ a_pc' = [a_pc EXCEPT ![t] = "returned"]
    /\ UNCHANGED <<a_query, a_adaptive, a_original, a_used, a_entry,
                   a_overlap, a_calls>>
    /\ UNCHANGED nonAdaptiveVars

\* search has returned to the thread's caller and the locals of the call
\* are gone; the thread may search again
FinishAdaptive(t) ==
    /\ a_pc[t] = "returned"
    /\ a_pc' = [a_pc EXCEPT ![t] = "idle"]
    /\ a_query' = [a_query EXCEPT ![t] = << >>]
    /\ a_adaptive' = [a_adaptive EXCEPT ![t] = <<0, 0>>]
    /\ a_original' = [a_original EXCEPT ![t] = <<0, 0>>]
    /\ a_used' = [a_used EXCEPT ![t] = <<0, 0>>]
    /\ a_entry' = [a_entry EXCEPT ![t] = <<0, 0>>]
    /\ a_overlap' = [a_overlap EXCEPT ![t] = FALSE]
    /\ UNCHANGED <<a_vector_weight, a_keyword_weight, a_calls>>
    /\ UNCHANGED nonAdaptiveVars

AdaptiveNext ==
    \/ \E t \in Threads : ChooseWeights(t)
    \/ \E t \in Threads : SaveWeights(t)
    \/ \E t \in Threads : SetVectorWeight(t)
    \/ \E t \in Threads : SetKeywordWeight(t)
    \/ \E t \in Threads : ScoreWithWeights(t)
    \/ \E t \in Threads : RestoreWeights(t)
    \/ \E t \in Threads : FinishAdaptive(t)

(***************************************************************************)
(* Part 8: FaissVectorDB.add_documents on documents that bring their own   *)
(* embedding, as _build_hybrid_indexes calls it from _init_hybrid_search.  *)
(***************************************************************************)
\* FaissVectorDB.dimension (lines 48, 57), scaled down
dimension == 2

\* the documents of a data file: has_content is bool(doc.get('content')),
\* embedding is doc['embedding'] (empty when the key is absent or the list
\* is empty)
EmbedPool ==
    { [id |-> "p1", has_content |-> TRUE, embedding |-> <<1, 0>>],
      [id |-> "p2", has_content |-> TRUE, embedding |-> <<0, 2>>],
      [id |-> "p3", has_content |-> TRUE, embedding |-> <<1, 0, 0>>],
      [id |-> "p4", has_content |-> TRUE, embedding |-> <<1>>],
      [id |-> "p5", has_content |-> TRUE, embedding |-> << >>],
      [id |-> "p6", has_content |-> FALSE, embedding |-> <<1, 0, 0>>],
      [id |-> "p7", has_content |-> TRUE, embedding |-> <<0, 0>>] }

\* the batches handed to add_documents; _build_hybrid_indexes calls it only
\* with a list that is not empty (line 190 of api_retriever.py)
EmbedBatches == UNION {[1..n -> EmbedPool] : n \in 1..MaxBatch}

\* line 177: embedding / np.linalg.norm(embedding), for a vector with one
\* component that is not zero
Normalized(v) ==
    [i \in 1..Len(v) |-> IF v[i] > 0 THEN 1 ELSE IF v[i] < 0 THEN -1 ELSE 0]

\* create_embedding, lines 94-117: a unit vector of the index's dimension,
\* or zeros when the embedder raised
EmbedderVector(fails) ==
    [i \in 1..dimension |-> IF fails \/ i < dimension THEN 0 ELSE 1]

\* lines 173-181: the embedding add_documents takes for a document
TakenEmbedding(doc, fails) ==
    IF doc.embedding # << >>
    THEN IF AnyNonZero(doc.embedding) THEN List(Normalized(doc.embedding))
         ELSE List(EmbedderVector(fails))
    ELSE List(EmbedderVector(fails))

\* the document makes add_documents call the embedder
CallsEmbedder(doc) ==
    doc.has_content /\ (doc.embedding = << >> \/ ~AnyNonZero(doc.embedding))

\* line 195, np.array(embeddings, dtype=np.float32), needs rows of one
\* length; line 204, index.add, needs rows of the index's dimension
RowsFitIndex(embeddings) ==
    \A i \in 1..Len(embeddings) : Len(embeddings[i]) = dimension

EmbedInit ==
    /\ e_docs \in EmbedBatches
    /\ e_i = 0
    /\ e_embeddings = << >>
    /\ e_valid_docs = << >>
    /\ e_index = << >>
    /\ e_documents = << >>
    /\ e_pc = "loop"
    /\ e_use_hybrid = TRUE

\* the embed part at rest
EmbedQuiet ==
    /\ e_docs = << >>
    /\ e_i = 0
    /\ e_embeddings = << >>
    /\ e_valid_docs = << >>
    /\ e_index = << >>
    /\ e_documents = << >>
    /\ e_pc = "loop"
    /\ e_use_hybrid = TRUE

\* lines 166-187, one document of the batch
EmbedDocument ==
    /\ e_pc = "loop"
    /\ e_i < Len(e_docs)
    /\ LET doc == e_docs[e_i + 1]
       IN  \E fails \in (IF CallsEmbedder(doc) THEN BOOLEAN ELSE {FALSE}) :
             LET embedding == TakenEmbedding(doc, fails)
                 kept == doc.has_content /\ AnyNonZero(embedding)
             IN  /\ e_embeddings' = IF kept
                                    THEN Append(e_embeddings, embedding)
                                    ELSE e_embeddings
                 /\ e_valid_docs' = IF kept THEN Append(e_valid_docs, doc)
                                    ELSE e_valid_docs
    /\ e_i' = e_i + 1
    /\ UNCHANGED <<e_docs, e_index, e_documents, e_pc, e_use_hybrid>>
    /\ UNCHANGED nonEmbedVars

\* lines 190-192: no embeddings, add_documents returns
NoValidEmbeddings ==
    /\ e_pc = "loop"
    /\ e_i = Len(e_docs)
    /\ e_embeddings = << >>
    /\ e_pc' = "returned"
    /\ UNCHANGED <<e_docs, e_i, e_embeddings, e_valid_docs, e_index,
                   e_documents, e_use_hybrid>>
    /\ UNCHANGED nonEmbedVars

\* lines 195-208: the rows become one array, go into the index and the
\* documents are stored
AddToIndex ==
    /\ e_pc = "loop"
    /\ e_i = Len(e_docs)
    /\ e_embeddings # << >>
    /\ RowsFitIndex(e_embeddings)
    /\ e_index' = e_index \o e_embeddings
    /\ e_documents' = e_documents \o e_valid_docs
    /\ e_pc' = "returned"
    /\ UNCHANGED <<e_docs, e_i, e_embeddings, e_valid_docs, e_use_hybrid>>
    /\ UNCHANGED nonEmbedVars

\* line 195 raises ValueError on rows of different lengths, line 204
\* raises on rows of another dimension than the index's; nothing was stored
AddRaises ==
    /\ e_pc = "loop"
    /\ e_i = Len(e_docs)
    /\ e_embeddings # << >>
    /\ ~RowsFitIndex(e_embeddings)
    /\ e_pc' = "raised"
    /\ UNCHANGED <<e_docs, e_i, e_embeddings, e_valid_docs, e_index,
                   e_documents, e_use_hybrid>>
    /\ UNCHANGED nonEmbedVars

\* api_retriever.py 197-228 and line 108: add_documents returned, the build
\* goes on and hybrid search stays on
BuildContinues ==
    /\ e_pc = "returned"
    /\ e_pc' = "built"
    /\ UNCHANGED <<e_docs, e_i, e_embeddings, e_valid_docs, e_index,
                   e_documents, e_use_hybrid>>
    /\ UNCHANGED nonEmbedVars

\* api_retriever.py 110-113: the exception of add_documents passes
\* HybridSearchEngine.add_documents (line 108) and _build_hybrid_indexes
\* (line 196) and is caught by _init_hybrid_search, which turns hybrid
\* search off
EmbedFallsBack ==
    /\ e_pc = "raised"
    /\ e_use_hybrid' = FALSE
    /\ e_pc' = "fallback"
    /\ UNCHANGED <<e_docs, e_i, e_embeddings, e_valid_docs, e_index,
                   e_documents>>
    /\ UNCHANGED nonEmbedVars

EmbedNext ==
    \/ EmbedDocument
    \/ NoValidEmbeddings
    \/ AddToIndex
    \/ AddRaises
    \/ BuildContinues
    \/ EmbedFallsBack

(***************************************************************************)
(* Part 9: NCBICrawler.crawl_and_process (ncbi_crawler.py 428-481).  The   *)
(* executor's threads run process_single_pdf, one task per discovered URL, *)
(* while the main thread saves the papers as_completed yields.             *)
(***************************************************************************)
\* the URLs discover_pdf_urls returned in this run (lines 457-460)
CrawlUrls == {"u1", "u2", "u3"}

\* a URL stored by an earlier run
StoredUrl == "u0"

\* hashlib.md5(pdf_content).hexdigest() of the PDFs served; "h3" is a PDF
\* with fewer than 100 characters of text
FileHashes == {"h1", "h2", "h3"}

\* line 369: len(full_text) < 100
InsufficientText(file_hash) == file_hash = "h3"

NoRow == [stored |-> FALSE, file_hash |-> "", success |-> FALSE]

NoPaper == [returned |-> FALSE, file_hash |-> "", success |-> FALSE,
            error_message |-> ""]

\* lines 339-348, 370-379, 403-412, 416-426: the ProcessedPaper returned
Paper(file_hash, success, error_message) ==
    [returned |-> TRUE, file_hash |-> file_hash, success |-> success,
     error_message |-> error_message]

\* __init__, lines 141-144: the table of an earlier run, empty or with one
\* paper stored successfully, and processed_urls loaded from it
CrawlInit ==
    /\ c_content \in [CrawlUrls -> FileHashes]
    /\ c_pc = [u \in CrawlUrls |-> "submitted"]
    /\ c_file_hash = [u \in CrawlUrls |-> ""]
    /\ c_existing = [u \in CrawlUrls |-> FALSE]
    /\ c_paper = [u \in CrawlUrls |-> NoPaper]
    /\ c_completed = << >>
    /\ \E earlier \in BOOLEAN :
         /\ c_rows = [u \in CrawlUrls \cup {StoredUrl} |->
                        IF u = StoredUrl /\ earlier
                        THEN [stored |-> TRUE, file_hash |-> "h1",
                              success |-> TRUE]
                        ELSE NoRow]
         /\ c_processed_urls = IF earlier THEN {StoredUrl} ELSE {}

\* the crawl part at rest
CrawlQuiet ==
    /\ c_content = [u \in CrawlUrls |-> "h1"]
    /\ c_pc = [u \in CrawlUrls |-> "submitted"]
    /\ c_file_hash = [u \in CrawlUrls |-> ""]
    /\ c_existing = [u \in CrawlUrls |-> FALSE]
    /\ c_paper = [u \in CrawlUrls |-> NoPaper]
    /\ c_completed = << >>
    /\ c_rows = [u \in CrawlUrls \cup {StoredUrl} |-> NoRow]
    /\ c_processed_urls = {}

\* lines 324-328: the PDF is downloaded and hashed
Download(u) ==
    /\ c_pc[u] = "submitted"
    /\ c_file_hash' = [c_file_hash EXCEPT ![u] = c_content[u]]
    /\ c_pc' = [c_pc EXCEPT ![u] = "hashed"]
    /\ UNCHANGED <<c_content, c_existing, c_paper, c_completed, c_rows,
                   c_processed_urls>>
    /\ UNCHANGED nonCrawlVars

\* lines 324-325 raise; lines 414-426 return the failed paper
DownloadFails(u) ==
    /\ c_pc[u] = "submitted"
    /\ c_paper' = [c_paper EXCEPT ![u] = Paper("", FALSE, "exception")]
    /\ c_completed' = Append(c_completed, u)
    /\ c_pc' = [c_pc EXCEPT ![u] = "returned"]
    /\ UNCHANGED <<c_content, c_file_hash, c_existing, c_rows,
                   c_processed_urls>>
    /\ UNCHANGED nonCrawlVars

\* lines 331-335: SELECT url FROM processed_papers WHERE file_hash = ? AND
\* success = 1
Existing(rows, file_hash) ==
    \E v \in DOMAIN rows :
        rows[v].stored /\ rows[v].success /\ rows[v].file_hash = file_hash

\* lines 331-335
CheckDuplicate(u) ==
    /\ c_pc[u] = "hashed"
    /\ c_existing' = [c_existing EXCEPT ![u] = Existing(c_rows, c_file_hash[u])]
    /\ c_pc' = [c_pc EXCEPT ![u] = "checked"]
    /\ UNCHANGED <<c_content, c_file_hash, c_paper, c_completed, c_rows,
                   c_processed_urls>>
    /\ UNCHANGED nonCrawlVars

\* lines 337-412: the duplicate, the paper with too little text or the
\* processed paper is returned and the future completes
ReturnPaper(u) ==
    /\ c_pc[u] = "checked"
    /\ c_paper' = [c_paper EXCEPT ![u] =
                     IF c_existing[u]
                     THEN Paper(c_file_hash[u], FALSE,
                                "Duplicate file already processed")
                     ELSE IF InsufficientText(c_file_hash[u])
                     THEN Paper(c_file_hash[u], FALSE,
                                "Insufficient text content")
                     ELSE Paper(c_file_hash[u], TRUE, "")]
    /\ c_completed' = Append(c_completed, u)
    /\ c_pc' = [c_pc EXCEPT ![u] = "returned"]
    /\ UNCHANGED <<c_content, c_file_hash, c_existing, c_rows,
                   c_processed_urls>>
    /\ UNCHANGED nonCrawlVars

\* lines 463-470 with _save_processed_paper, lines 187-217: the main thread
\* takes the next completed future and stores its paper; INSERT OR REPLACE
\* on the unique url
SavePaper ==
    /\ c_completed # << >>
    /\ LET u == Head(c_completed)
           paper == c_paper[u]
       IN  /\ c_rows' = [c_rows EXCEPT ![u] =
                            [stored |-> TRUE, file_hash |-> paper.file_hash,
                             success |-> paper.success]]
           /\ c_processed_urls' = IF paper.success
                                  THEN c_processed_urls \cup {u}
                                  ELSE c_processed_urls
           /\ c_pc' = [c_pc EXCEPT ![u] = "saved"]
    /\ c_completed' = Tail(c_completed)
    /\ UNCHANGED <<c_content, c_file_hash, c_existing, c_paper>>
    /\ UNCHANGED nonCrawlVars

CrawlNext ==
    \/ \E u \in CrawlUrls : Download(u)
    \/ \E u \in CrawlUrls : DownloadFails(u)
    \/ \E u \in CrawlUrls : CheckDuplicate(u)
    \/ \E u \in CrawlUrls : ReturnPaper(u)
    \/ SavePaper

(***************************************************************************)
(* The specifications.                                                     *)
(***************************************************************************)
\* the cache part at rest, for the specifications that do not exercise it
CacheQuiet == CacheInit

InitCache ==
    /\ CacheInit
    /\ QueryQuiet
    /\ SearchQuiet
    /\ StoreQuiet
    /\ BuildQuiet
    /\ LoaderQuiet
    /\ AdaptiveQuiet
    /\ EmbedQuiet
    /\ CrawlQuiet

SpecCache == InitCache /\ [][CacheNext]_vars

InitQuery ==
    /\ QueryInit
    /\ CacheQuiet
    /\ SearchQuiet
    /\ StoreQuiet
    /\ BuildQuiet
    /\ LoaderQuiet
    /\ AdaptiveQuiet
    /\ EmbedQuiet
    /\ CrawlQuiet

SpecQuery == InitQuery /\ [][QueryNext]_vars

InitSearch ==
    /\ SearchInit
    /\ CacheQuiet
    /\ QueryQuiet
    /\ StoreQuiet
    /\ BuildQuiet
    /\ LoaderQuiet
    /\ AdaptiveQuiet
    /\ EmbedQuiet
    /\ CrawlQuiet

SpecSearch == InitSearch /\ [][SearchNext]_vars

InitFault ==
    /\ FaultInit
    /\ CacheQuiet
    /\ QueryQuiet
    /\ StoreQuiet
    /\ BuildQuiet
    /\ LoaderQuiet
    /\ AdaptiveQuiet
    /\ EmbedQuiet
    /\ CrawlQuiet

SpecFault == InitFault /\ [][FaultNext]_vars

InitStore ==
    /\ StoreInit
    /\ CacheQuiet
    /\ QueryQuiet
    /\ SearchQuiet
    /\ BuildQuiet
    /\ LoaderQuiet
    /\ AdaptiveQuiet
    /\ EmbedQuiet
    /\ CrawlQuiet

SpecStore == InitStore /\ [][StoreNext]_vars

InitBuild ==
    /\ BuildInit
    /\ CacheQuiet
    /\ QueryQuiet
    /\ SearchQuiet
    /\ StoreQuiet
    /\ LoaderQuiet
    /\ AdaptiveQuiet
    /\ EmbedQuiet
    /\ CrawlQuiet

SpecBuild == InitBuild /\ [][BuildNext]_vars

InitLoader ==
    /\ LoaderInit
    /\ CacheQuiet
    /\ QueryQuiet
    /\ SearchQuiet
    /\ StoreQuiet
    /\ BuildQuiet
    /\ AdaptiveQuiet
    /\ EmbedQuiet
    /\ CrawlQuiet

SpecLoader == InitLoader /\ [][LoaderNext]_vars

InitAdaptive ==
    /\ AdaptiveInit
    /\ CacheQuiet
    /\ QueryQuiet
    /\ SearchQuiet
    /\ StoreQuiet
    /\ BuildQuiet
    /\ LoaderQuiet
    /\ EmbedQuiet
    /\ CrawlQuiet

SpecAdaptive == InitAdaptive /\ [][AdaptiveNext]_vars

InitEmbed ==
    /\ EmbedInit
    /\ CacheQuiet
    /\ QueryQuiet
    /\ SearchQuiet
    /\ StoreQuiet
    /\ BuildQuiet
    /\ LoaderQuiet
    /\ AdaptiveQuiet
    /\ CrawlQuiet

SpecEmbed == InitEmbed /\ [][EmbedNext]_vars

InitCrawl ==
    /\ CrawlInit
    /\ CacheQuiet
    /\ QueryQuiet
    /\ SearchQuiet
    /\ StoreQuiet
    /\ BuildQuiet
    /\ LoaderQuiet
    /\ AdaptiveQuiet
    /\ EmbedQuiet

SpecCrawl == InitCrawl /\ [][CrawlNext]_vars

(***************************************************************************)
(* The properties.                                                         *)
(***************************************************************************)
\* The three conditions of the freshness check as the specification states
\* them, over the files as they are on disk.
AllFourExist == \A p \in SnapshotFiles : snapshot_exists[p]

NoSourceNewer ==
    /\ cache_info.parses
    /\ \A f \in DataFiles :
          StartsWithDot(f) \/ data_files[f].mtime <= cache_info.timestamp

CountWithinTolerance ==
    Abs(CountDocumentsQuickly(data_files).value - cache_info.document_count)
        <= CountTolerance

\* C1: _is_cache_valid returns true if and only if all four snapshot files
\* exist, no non-dot source file is newer than the manifest timestamp and the
\* document count differs from the manifest's by at most 100.
C1_ValidIffFresh ==
    cache_pc = "checked" =>
        (cache_valid <=> (AllFourExist /\ NoSourceNewer /\ CountWithinTolerance))

\* a well-formed result object: the four keys are there
WellFormed(o) ==
    /\ o.kind = "returned"
    /\ o.query = cur_query
    /\ o.response # ""

\* the structured error result of section 4.I
ErrorShape(o) ==
    /\ o.kind = "returned"
    /\ o.error # ""
    /\ o.query = cur_query
    /\ o.response = Apology
    /\ o.retrieved_documents = << >>
    /\ o.metadata.error = TRUE

\* C2: whatever fails during a query, rag_query returns a result object with
\* query, response, retrieved_documents and metadata; no exception reaches
\* the caller.
C2_AlwaysReturnsResult == pc = "done" => WellFormed(outcome)

\* C3: when the deadline fired while the hybrid path was running, a returned
\* result comes from the fallback path or is an error result, and holds no
\* document and no answer of the hybrid path.
C3_NoPartialHybridResult ==
    (pc = "done" /\ deadline_at \in HybridPcs /\ outcome.kind = "returned")
        => /\ \/ outcome.metadata.search_engine = "original_fallback"
              \/ outcome.metadata.error
           /\ "hybrid_doc" \notin Range(outcome.retrieved_documents)
           /\ outcome.response # "answer_hybrid"

\* the deadline fired inside generate_response on the hybrid path, and the
\* caller got the fallback's result
C3_Witness ==
    /\ pc = "done"
    /\ deadline_at = "gen_call"
    /\ outcome.kind = "returned"
    /\ outcome.metadata.search_engine = "original_fallback"
    /\ outcome.response = "answer_fallback"

\* C4: with use_hybrid true, the hybrid search and the generator returning
\* and no deadline, rag_query returns the hybrid documents with
\* metadata.search_engine = 'hybrid' and total_documents_available, and
\* use_hybrid stays true.
C4_HybridSuccessReturnsHybrid ==
    (pc = "done" /\ engine_called = "hybrid" /\ search_ok /\ gen_ok
        /\ deadline_at = "none")
        => /\ outcome.kind = "returned"
           /\ outcome.metadata.search_engine = "hybrid"
           /\ outcome.metadata.total_documents_available
           /\ outcome.response = "answer_hybrid"
           /\ use_hybrid

\* C5: use_hybrid never goes from false to true, and a degraded retriever
\* neither dispatches a search to the hybrid engine nor returns a result
\* marked 'hybrid'.
C5_DegradationForwardOnly ==
    [][/\ ~use_hybrid => ~use_hybrid'
       /\ ~use_hybrid => (engine_called' = "hybrid" => engine_called = "hybrid")
       /\ ~use_hybrid' => outcome'.metadata.search_engine # "hybrid"]_vars

\* a retriever that degraded without getting its fallback retriever runs a
\* later query, and search_documents goes to the original retriever
C5_Witness ==
    /\ ~use_hybrid
    /\ ~has_original
    /\ queries_done >= 1
    /\ engine_called = "original"

\* C6: when the hybrid path raised, use_hybrid is false, the fallback
\* retriever was re-initialised once and the fallback ran at most once; the
\* caller gets the fallback's result or the structured error result.
C6_ExceptionFallsBackOnce ==
    (pc = "done" /\ hybrid_exc # "none")
        => /\ ~use_hybrid
           /\ reinit_calls = 1
           /\ fallback_calls <= 1
           /\ outcome.kind = "returned"
           /\ outcome.metadata.search_engine # "original_fallback"
                 => ErrorShape(outcome)

\* the keys of a result list, in order
KeysOf(results) == [i \in 1..Len(results) |-> results[i].key]

\* C7: for every completion order of the two worker threads, _parallel_search
\* returns the pair _sequential_search returns for the same query and
\* indexes, re-ranking starts only after both legs have finished, and search
\* returns the same ordered list of document keys as in sequential mode.
C7_ParallelEqualsSequential ==
    (api = "hybrid" /\ use_parallel_search /\ search_pc \in {"rerank", "done"})
        => LET seq == SequentialSearch(vdb_documents, bm25_documents, s_query)
           IN  /\ \A l \in Legs : leg_state[l] = "finished"
               /\ <<vector_results, keyword_results>> = seq
               /\ search_pc = "done" =>
                    KeysOf(final_results)
                      = KeysOf(WithFinalRank(RerankResults(rerank_method,
                                   s_query, seq[1], seq[2], s_top_k)))

\* the keyword leg finished first, both legs returned hits, and they differ
C7_Witness ==
    /\ api = "hybrid" /\ use_parallel_search /\ search_pc = "done"
    /\ completed = <<"keyword", "vector">>
    /\ vector_results # << >>
    /\ keyword_results # << >>
    /\ Len(vector_results) # Len(keyword_results)
    /\ Len(final_results) >= 2

C9_NoTokensEmptyResult ==
    (api = "hybrid" /\ search_pc = "done" /\ PreprocessText(s_query) = << >>)
        => final_results = << >>

\* C10: BM25Search.search(q, k) returns at most k hits, every hit has a
\* bm25_score above 0, hits are in non-increasing score order with ranks
\* 1..n, and the list is empty when the index is empty, when the query has
\* no tokens after preprocessing, or when no document scores above 0.
C10_Bm25SearchShape ==
    (api = "bm25" /\ search_pc = "done")
        => LET h == keyword_results
               n == Len(h)
               qt == PreprocessText(s_query)
               scores == Bm25Scores(qt, TokenizedDocs(bm25_documents))
           IN  /\ n <= s_top_k
               /\ \A i \in 1..n : h[i].bm25_score > 0 /\ h[i].rank = i
               /\ \A i \in 1..(n - 1) : h[i].bm25_score >= h[i + 1].bm25_score
               /\ (\/ bm25_documents = << >>
                   \/ qt = << >>
                   \/ \A i \in 1..Len(scores) : scores[i] <= 0) => n = 0

\* two hits, and a third document of the top k left out for its score
C10_Witness ==
    /\ api = "bm25" /\ search_pc = "done"
    /\ Len(keyword_results) = 2
    /\ s_top_k = 3
    /\ Len(bm25_documents) = 3
    /\ keyword_results[1].bm25_score > keyword_results[2].bm25_score

\* ---- the saved indexes ----

\* the three files are readable and the two objects hold what they contain
LoadedFromDisk ==
    /\ \A name \in BlobNames : Readable(disk[name])
    /\ f_index = disk.faiss_index.index
    /\ f_documents = disk.faiss_metadata.documents
    /\ f_doc_ids = disk.faiss_metadata.doc_ids
    /\ b_bm25 = disk.bm25_index.bm25
    /\ b_documents = disk.bm25_index.documents
    /\ b_tokenized_docs = disk.bm25_index.tokenized_docs
    /\ b_doc_ids = disk.bm25_index.doc_ids

C14_FaissAligned ==
    /\ Len(f_index.vectors) = Len(f_documents)
    /\ Len(f_documents) = Len(f_doc_ids)
    /\ \A i \in 1..Len(f_documents) :
         /\ f_index.vectors[i] = f_documents[i].emb
         /\ f_doc_ids[i] = FaissDocId(f_documents[i], 0)

\* C15: in BM25Search the lists documents, tokenized_docs and doc_ids have
\* one length, position i of the three belongs to the same document, no
\* tokenized entry is empty, and a model that is not None is fitted on
\* exactly the current tokenized_docs.
C15_Bm25Aligned ==
    /\ Len(b_documents) = Len(b_tokenized_docs)
    /\ Len(b_documents) = Len(b_doc_ids)
    /\ \A i \in 1..Len(b_documents) :
         /\ b_tokenized_docs[i] = PreprocessText(FullText(b_documents[i]))
         /\ b_tokenized_docs[i] # << >>
         /\ b_doc_ids[i] = IF b_documents[i].id # NoId THEN b_documents[i].id
                           ELSE DocNum(i)
    /\ b_bm25.fitted => b_bm25.corpus = b_tokenized_docs

\* add_documents was called at least twice, a document without tokens was
\* turned down, and the model is fitted on two or more documents
C15_Witness ==
    /\ st_op.name = "add"
    /\ st_op.doc = Len(StoreDocs)
    /\ Len(b_documents) = 3
    /\ Len(b_documents) < st_next
    /\ b_bm25.fitted

\* C16: when the embedder fails for a document, add_documents calls it a
\* second time for that document before it leaves the document out of the
\* dense index.
C16_EmbedRetried ==
    (st_op.name = "add" /\ st_op.embed_failed) => st_op.embed_calls = 2

\* the hits of both objects for every query and every top_k, from the given
\* fields
AllSearches(index, f_docs, bm25, b_docs) ==
    [q \in SearchQueries, k \in 0..MaxK |->
        <<StoreVdbSearch(index, f_docs, q, k),
          StoreBm25Search(bm25, b_docs, q, k)>>]

\* the last save wrote the three files whole, nothing damaged them since,
\* and they were loaded into a newly constructed pair of objects
RoundTrip ==
    /\ st_op.name = "load"
    /\ st_op.fresh
    /\ st_saved.complete

C12_SaveFailureSwallowed ==
    (bd_pc = "ready" /\ bd_failed # {})
        => bd_use_hybrid /\ bd_engine = "indexed"

\* initialisation ended after the write of the manifest failed
C12_Witness ==
    /\ bd_pc = "ready"
    /\ "cache_info.json" \in bd_failed
    /\ bd_use_hybrid

\* C13: the snapshot is replaced atomically: when the process stops during
\* a save, each of the four files holds the whole old content (or is still
\* absent) or the whole new content, never a part.
C13_FilesOldOrNew ==
    bd_pc = "stopped" => \A f \in Range(WriteOrder) : bd_files[f] # "partial"

\* C28: a build writes cache_info.json only after it has written all three
\* index files successfully: beside a manifest of this build the three
\* index files are whole and of this build too.
C28_ManifestAfterBlobs ==
    bd_files["cache_info.json"] = "new" =>
        \A f \in {"faiss_index.bin", "faiss_metadata.pkl", "bm25_index.pkl"} :
            bd_files[f] = "new"

\* ---- the loader ----

\* a record is valid: an object with a non-blank content or a non-blank
\* title
ValidRecord(r) == r.is_dict /\ (r.content = "text" \/ r.title = "text")

\* the valid records of one file, stamped with its stem; nothing for a
\* file that does not parse or holds no object or list
ValidRecordsOf(f) ==
    LET file_data == ld_files[f]
        kept == SelectSeq(file_data.items, ValidRecord)
    IN  IF ~file_data.parses \/ file_data.shape = "scalar" THEN << >>
        ELSE List([i \in 1..Len(kept) |->
                 [kept[i] EXCEPT !.data_source = Stem_(f)]])

\* C17: _load_all_documents returns exactly the valid records of every
\* *.json file whose name does not start with a dot, each stamped with
\* data_source = the file stem; a file that does not parse adds nothing
\* and does not stop the files after it.
C17_LoadsExactlyValidRecords ==
    ld_next > Len(LoaderFiles) =>
        ld_documents = ValidRecordsOf("a.json") \o ValidRecordsOf("b.json")

\* the record is malformed: not an object, or an object whose content or
\* title is null
Malformed(r) == ~r.is_dict \/ r.content = "null" \/ r.title = "null"

\* C26: a malformed record of a source file (not an object, or with a null
\* content or title) is dropped alone: every valid record of a file that
\* parses and is not hidden is returned by _load_all_documents, whatever
\* else the file holds.
C26_IngestErrorsLocal ==
    ld_next > Len(LoaderFiles) =>
        \A f \in {"a.json", "b.json"} :
            (ld_files[f].parses /\ ld_files[f].shape # "scalar") =>
                \A i \in 1..Len(ld_files[f].items) :
                    (ValidRecord(ld_files[f].items[i])
                        /\ ~Malformed(ld_files[f].items[i])) =>
                        [ld_files[f].items[i] EXCEPT !.data_source = Stem_(f)]
                            \in Range(ld_documents)

\* C27: every record _load_all_documents returns carries an id: a record
\* that came without one got an id made of the source tag and a sequence
\* number, so that records without ids stay apart in the union keyed by id.
C27_LoaderAssignsIds ==
    ld_next > Len(LoaderFiles) =>
        \A i \in 1..Len(ld_documents) : ld_documents[i].id # "absent"

\* ---- ties of the combined score ----

\* the keys of the documents of DocPool in the order of Python's str
\* comparison
KeyOrder == <<"Asma", "a", "d", "e">>

KeyPos(key) == CHOOSE i \in 1..Len(KeyOrder) : KeyOrder[i] = key

\* entry x goes before entry y by the rule for ties: the lower dense rank,
\* an entry without dense rank after those with one; then the same for the
\* sparse rank; then the smaller id
TieBefore(x, y) ==
    LET dense == IF x.has_vector /\ y.has_vector
                 THEN IF x.vector_rank < y.vector_rank THEN "before"
                      ELSE IF x.vector_rank > y.vector_rank THEN "after"
                      ELSE "equal"
                 ELSE IF x.has_vector THEN "before"
                 ELSE IF y.has_vector THEN "after"
                 ELSE "equal"
        sparse == IF x.has_keyword /\ y.has_keyword
                  THEN IF x.keyword_rank < y.keyword_rank THEN "before"
                       ELSE IF x.keyword_rank > y.keyword_rank THEN "after"
                       ELSE "equal"
                  ELSE IF x.has_keyword THEN "before"
                  ELSE IF y.has_keyword THEN "after"
                  ELSE "equal"
    IN  IF dense # "equal" THEN dense = "before"
        ELSE IF sparse # "equal" THEN sparse = "before"
        ELSE KeyPos(x.key) <= KeyPos(y.key)

\* a hybrid search has returned
HybridReturned == search_pc = "done" /\ api = "hybrid"

\* C20: entries of a hybrid result with equal combined_score stand in the
\* order of lower dense rank (absent from the dense leg last), then lower
\* sparse rank, then smaller document id.
C20_TieOrder ==
    HybridReturned =>
        \A i \in 1..Len(final_results), j \in 1..Len(final_results) :
            (i < j /\ final_results[i].combined_score
                          = final_results[j].combined_score)
                => TieBefore(final_results[i], final_results[j])

\* ---- a leg that raises ----

\* the hits of the leg that did not raise
SurvivingHits ==
    IF leg_state["vector"] = "raised" THEN keyword_results
    ELSE vector_results

\* a hybrid search with top_k >= 1 is over, one leg raised and the other
\* one returned hits
OneLegRaised ==
    /\ api = "hybrid"
    /\ search_pc \in {"done", "raised"}
    /\ s_top_k >= 1
    /\ Cardinality({l \in Legs : leg_state[l] = "raised"}) = 1
    /\ search_pc = "done" => SurvivingHits # << >>

\* C19: when exactly one leg of a hybrid search raises and the other leg
\* returns hits, search (asked for at least one result) raises nothing and
\* returns a list that is not empty and holds only hits of the leg that
\* did not raise, in parallel and in sequential mode.
C19_OneLegFailureContained ==
    OneLegRaised =>
        /\ search_pc = "done"
        /\ final_results # << >>
        /\ \A i \in 1..Len(final_results) :
             /\ \E h \in Range(SurvivingHits) :
                    DocKey(h) = final_results[i].key
             /\ final_results[i].has_vector = (leg_state["keyword"] = "raised")
             /\ final_results[i].has_keyword = (leg_state["vector"] = "raised")

\* the dense leg raised in sequential mode and the keyword hits came back
C19_Witness ==
    /\ OneLegRaised
    /\ ~use_parallel_search
    /\ leg_state["vector"] = "raised"
    /\ Len(final_results) >= 2

\* ---- the weighted sum ----

\* a hybrid search with the weighted_sum method has returned
WeightedSumReturned == HybridReturned /\ rerank_method = "weighted_sum"

\* C21: under weighted_sum every normalised score of a leg lies in [0, 1],
\* an entry a leg did not return has 0 for that leg, combined_score is
\* vector_weight * normalised vector score + keyword_weight * normalised
\* keyword score, and so 0 <= combined_score <= vector_weight +
\* keyword_weight, for every entry of the union and of the returned list.
C21_WeightedSumBounds ==
    WeightedSumReturned =>
        LET documents == MergedDocs(vector_results, keyword_results)
            vrange == ScoreRange(VectorScores(documents))
            krange == ScoreRange(KeywordScores(documents))
            scored == WeightedSumRerank(documents, vector_weight,
                                        keyword_weight)
        IN  /\ \A i \in 1..Len(documents) :
                 LET nv == NormalizedVector(documents, i)
                     nk == NormalizedKeyword(documents, i)
                 IN  /\ 0 <= nv /\ nv <= vrange
                     /\ 0 <= nk /\ nk <= krange
                     /\ ~documents[i].has_vector => nv = 0
                     /\ ~documents[i].has_keyword => nk = 0
                     /\ scored[i].combined_score
                          = vector_weight * nv * krange
                            + keyword_weight * nk * vrange
                     /\ 0 <= scored[i].combined_score
                     /\ scored[i].combined_score
                          <= (vector_weight + keyword_weight)
                             * vrange * krange
            /\ \A i \in 1..Len(final_results) :
                 /\ 0 <= final_results[i].combined_score
                 /\ final_results[i].combined_score
                      <= (vector_weight + keyword_weight) * vrange * krange
                 /\ \E j \in 1..Len(scored) :
                      [scored[j] EXCEPT !.final_rank = i] = final_results[i]

\* a weighted_sum result with an entry only the dense leg returned, an
\* entry both legs returned, and scores that differ within each leg
C21_Witness ==
    /\ WeightedSumReturned
    /\ Len(final_results) >= 3
    /\ \E i \in 1..Len(final_results) :
         final_results[i].has_vector /\ ~final_results[i].has_keyword
    /\ \E i \in 1..Len(final_results) :
         final_results[i].has_vector /\ final_results[i].has_keyword
    /\ \E i \in 1..Len(final_results) :
         final_results[i].combined_score
            = (vector_weight + keyword_weight)
              * ScoreRange(VectorScores(
                    MergedDocs(vector_results, keyword_results)))
              * ScoreRange(KeywordScores(
                    MergedDocs(vector_results, keyword_results)))

\* ---- the adaptive weights ----

\* the weights the rule of priority gives a query, times 10: at most 3
\* tokens or a double quote, else a trigger term, else the configured ones
WeightsByRule(q, configured) ==
    IF Len(q) <= 3 \/ (\E i \in 1..Len(q) : HasQuote(q[i])) THEN <<3, 7>>
    ELSE IF \E i \in 1..Len(q) : ContainsMedicalTerm(q[i]) THEN <<7, 3>>
    ELSE configured

\* C22: the adaptive method takes (0.3, 0.7) for a query of at most 3
\* tokens or with a double quote, otherwise (0.7, 0.3) for a query with a
\* trigger term, otherwise the configured weights; short or quoted wins
\* over a trigger term.
C22_AdaptivePriority ==
    \A t \in Threads :
        a_pc[t] = "chosen"
            => a_adaptive[t] = WeightsByRule(a_query[t], a_entry[t])

\* each branch was taken by a call: a short query with a trigger term, a
\* long one with a trigger term, a long one with a quote and a trigger
\* term, a long one with neither
C22_Witness ==
    /\ a_pc["t1"] = "chosen"
    /\ a_pc["t2"] = "chosen"
    /\ a_entry["t1"] = <<vector_weight, keyword_weight>>
    /\ a_query["t1"] = <<"apa", "gejalanya", "demam", "dan", "\"batuk\"">>
    /\ a_adaptive["t1"] = <<3, 7>>
    /\ a_query["t2"] = <<"apa", "Gejala", "demam", "dan", "batuk">>
    /\ a_adaptive["t2"] = <<7, 3>>

\* C23: after an adaptive search that ran alone has returned, vector_weight
\* and keyword_weight are what they were before the call, whichever branch
\* was taken.
C23_WeightsRevert ==
    \A t \in Threads :
        (a_pc[t] = "returned" /\ ~a_overlap[t])
            => <<a_vector_weight, a_keyword_weight>> = a_entry[t]

\* a call that ran alone and scored with weights other than the
\* configured ones has returned
C23_Witness ==
    \E t \in Threads :
        /\ a_pc[t] = "returned"
        /\ ~a_overlap[t]
        /\ a_used[t] = <<7, 3>>
        /\ a_entry[t] = <<vector_weight, keyword_weight>>
        /\ <<a_vector_weight, a_keyword_weight>> = a_entry[t]

\* C24: when adaptive searches run concurrently on one engine, each is
\* scored with the weights chosen for its own query, and once all have
\* completed the engine holds the configured weights again.
C24_ConcurrentAdaptiveSafe ==
    /\ \A t \in Threads :
         a_pc[t] \in {"scored", "returned"} => a_used[t] = a_adaptive[t]
    /\ InCall = {} =>
         <<a_vector_weight, a_keyword_weight>> = <<vector_weight,
                                                   keyword_weight>>

\* ---- the deadline of a query ----

\* C29: whenever rag_query has finished, by a return of the hybrid path,
\* by a return through the timeout or the exception fallback or by an
\* exception that leaves it, no SIGALRM timer is pending: none can fire
\* after the query or during a later one before that one arms its own.
C29_DeadlineCancelled ==
    pc \in {"done", "idle"} => alarm = "off"

\* a query that armed the timer came back through the exception fallback
\* without the timer having fired
C29_Witness ==
    /\ pc = "done"
    /\ handler = "exception"
    /\ deadline_at = "none"
    /\ outcome.kind = "returned"
    /\ alarm = "off"

\* ---- precomputed embeddings ----

\* the document has content and brings an embedding whose dimension is not
\* the index's
WrongDimension(doc) ==
    /\ doc.has_content
    /\ AnyNonZero(doc.embedding)
    /\ Len(doc.embedding) # dimension

\* the document has content and brings an embedding of the index's
\* dimension that is not all zeros
ValidPrecomputed(doc) ==
    /\ doc.has_content
    /\ AnyNonZero(doc.embedding)
    /\ Len(doc.embedding) = dimension

\* C25: when add_documents got a document whose precomputed embedding has
\* another dimension than the index, every other document of the call with
\* a valid embedding is in the dense index afterwards and the build ends
\* with hybrid search on.
C25_WrongDimensionDroppedAlone ==
    (e_pc \in {"built", "fallback"}
        /\ \E i \in 1..Len(e_docs) : WrongDimension(e_docs[i]))
        => /\ e_use_hybrid
           /\ \A i \in 1..Len(e_docs) :
                ValidPrecomputed(e_docs[i])
                    => e_docs[i] \in Range(e_documents)

\* ---- the crawler ----

\* C30: however the worker threads and the saving main thread interleave,
\* no two rows stored with success = 1 have the same file_hash, and
\* processed_urls holds only URLs whose row has success = 1.
C30_NoDuplicateHashStored ==
    /\ \A u, v \in DOMAIN c_rows :
         (u # v /\ c_rows[u].stored /\ c_rows[v].stored
              /\ c_rows[u].success /\ c_rows[v].success)
             => c_rows[u].file_hash # c_rows[v].file_hash
    /\ \A u \in c_processed_urls : c_rows[u].stored /\ c_rows[u].success

=============================================================================
